---- MODULE Spec2Model ----
(***************************************************************************)
(* Model of the Mangrove rewards program: the reward aggregation of the    *)
(* generateTree command (RewardProcessor), the Merkle snapshot store       *)
(* (MerkleService over the ./data directory) and the status endpoint.      *)
(*                                                                         *)
(* Strings that the code inspects character by character (addresses,       *)
(* amounts) are sequences of one-character strings.  A JavaScript Map is   *)
(* a sequence of [key, val] records in insertion order.  A call that may   *)
(* throw returns [ok, value].                                              *)
(***************************************************************************)
EXTENDS Integers, Sequences, FiniteSets, TLC

(***************************************************************************)
(* Bounds of the model.                                                    *)
(***************************************************************************)
\* Vaults in the registry answer, and incentives they hold together.
MaxVaults == 2
MaxIncentives == 2
\* Pages the indexer reports for one incentive (nPages), one record a page.
MaxPages == 2
\* Display rewards are multiples of 1/SubUnits of one base unit (10^-18
\* token), from 0 to MaxReward of them.
SubUnits == 2
MaxReward == 2
\* Snapshots created, and the last instant of the clock.
MaxRoots == 2
MaxClock == 2

(***************************************************************************)
(* Strings.                                                                *)
(***************************************************************************)
AddressLength == 42

Digits == {"0", "1", "2", "3", "4", "5", "6", "7", "8", "9"}

\* String.prototype.toLowerCase on the characters an address can hold.
LowerChar(c) ==
    CASE c = "A" -> "a" [] c = "B" -> "b" [] c = "C" -> "c"
      [] c = "D" -> "d" [] c = "E" -> "e" [] c = "F" -> "f"
      [] c = "X" -> "x" [] OTHER -> c

toLowerCase(s) == [i \in DOMAIN s |-> LowerChar(s[i])]

Thrown == [ok |-> FALSE, value |-> <<>>]
Returned(v) == [ok |-> TRUE, value |-> v]

\* MerkleService.validateAddress: the prefix and the length are all it tests.
validateAddress(address) ==
    IF ~(Len(address) >= 2 /\ address[1] = "0" /\ address[2] = "x")
         \/ Len(address) # AddressLength
    THEN Thrown
    ELSE Returned(toLowerCase(address))

\* "0x" followed by 40 times the character c.
Addr(c) == <<"0", "x">> \o [i \in 1..(AddressLength - 2) |-> c]

\* BigInt.prototype.toString and BigInt(string) on decimal strings.
DigitChar(d) ==
    CASE d = 0 -> "0" [] d = 1 -> "1" [] d = 2 -> "2" [] d = 3 -> "3"
      [] d = 4 -> "4" [] d = 5 -> "5" [] d = 6 -> "6" [] d = 7 -> "7"
      [] d = 8 -> "8" [] OTHER -> "9"

DigitValue(c) == CHOOSE d \in 0..9 : DigitChar(d) = c

RECURSIVE BigIntToString(_)
BigIntToString(n) ==
    IF n < 10 THEN <<DigitChar(n)>>
    ELSE Append(BigIntToString(n \div 10), DigitChar(n % 10))

RECURSIVE ParseBigInt(_)
ParseBigInt(s) ==
    IF s = <<>> THEN 0
    ELSE 10 * ParseBigInt(SubSeq(s, 1, Len(s) - 1)) + DigitValue(s[Len(s)])

\* /^\d+$/.test(s)
IsDigitString(s) == Len(s) > 0 /\ \A i \in DOMAIN s : s[i] \in Digits

(***************************************************************************)
(* JavaScript Map, in insertion order.                                     *)
(***************************************************************************)
MapHas(m, k) == \E i \in DOMAIN m : m[i].key = k

MapIndex(m, k) == CHOOSE i \in DOMAIN m : m[i].key = k

MapGet(m, k) == m[MapIndex(m, k)].val

MapSet(m, k, v) ==
    IF MapHas(m, k)
    THEN [m EXCEPT ![MapIndex(m, k)].val = v]
    ELSE Append(m, [key |-> k, val |-> v])

(***************************************************************************)
(* RewardProcessor: token table, conversion, accumulation.                 *)
(***************************************************************************)
MGVAddress ==
    <<"0","x","1","7","7","E","1","4","e","8","e","c","2","4","B","a","B","a",
      "7","7","B","0","8","d","9","6","0","5","3","C","0","8","B","f","7","F",
      "3","7","A","B","4","9">>

TOKEN_ADDRESSES ==
    [c \in {1, 8453, 137, 42161} |-> [s \in {"MGV"} |-> MGVAddress]]

getTokenAddress(chain, tokenSymbol) ==
    IF chain \notin DOMAIN TOKEN_ADDRESSES THEN Thrown
    ELSE IF tokenSymbol \notin DOMAIN TOKEN_ADDRESSES[chain] THEN Thrown
    ELSE Returned(TOKEN_ADDRESSES[chain][tokenSymbol])

\* A display amount entry.rewards: a finite number of 1/SubUnits base units,
\* or a number whose product with 10^18 is not finite.
Infinity == [finite |-> FALSE, units |-> 0]
Finite(k) == [finite |-> TRUE, units |-> k]

\* entry.rewards > 0
IsPositive(r) == ~r.finite \/ r.units > 0

\* BigInt(Math.floor(entry.rewards * Math.pow(10, 18))): BigInt throws a
\* RangeError on a number that is not finite.
toBaseUnits(r) == IF r.finite THEN Returned(r.units \div SubUnits) ELSE Thrown

\* The loop of processIncentive over the leaderboard.
RECURSIVE buildUserRewards(_, _, _)
buildUserRewards(leaderboard, tokenAddress, userRewards) ==
    IF leaderboard = <<>> THEN Returned(userRewards)
    ELSE LET entry == Head(leaderboard)
             rewardAmount == toBaseUnits(entry.rewards)
         IN  IF ~IsPositive(entry.rewards)
             THEN buildUserRewards(Tail(leaderboard), tokenAddress, userRewards)
             ELSE IF ~rewardAmount.ok THEN Thrown
             ELSE buildUserRewards(Tail(leaderboard), tokenAddress,
                      MapSet(userRewards, entry.user,
                             [token |-> tokenAddress,
                              amount |-> rewardAmount.value]))

\* processIncentive once the leaderboard is fetched.
processIncentive(leaderboard, chain, tokenSymbol) ==
    LET tokenAddress == getTokenAddress(chain, tokenSymbol)
    IN  IF ~tokenAddress.ok THEN Thrown
        ELSE buildUserRewards(leaderboard, tokenAddress.value, <<>>)

\* The same with the amount set instead of added.
AddAmount_Overwrite(rewardsMap, user, token, amount) ==
    LET userTokens == IF MapHas(rewardsMap, user)
                      THEN MapGet(rewardsMap, user) ELSE <<>>
    IN  MapSet(rewardsMap, user, MapSet(userTokens, token, amount))

\* userTokens.set(token, (userTokens.get(token) || 0n) + amount) on the map
\* of one user, created when the user is new.
AddAmount(rewardsMap, user, token, amount) ==
    LET userTokens == IF MapHas(rewardsMap, user)
                      THEN MapGet(rewardsMap, user) ELSE <<>>
        currentAmount == IF MapHas(userTokens, token)
                         THEN MapGet(userTokens, token) ELSE 0
    IN  MapSet(rewardsMap, user, MapSet(userTokens, token, currentAmount + amount))

\* processVaultIncentives: the rewards of one incentive added to the vault's.
RECURSIVE AggregateIncentive(_, _)
AggregateIncentive(aggregated, incentiveRewards) ==
    IF incentiveRewards = <<>> THEN aggregated
    ELSE LET e == Head(incentiveRewards)
         IN  AggregateIncentive(
                 AddAmount(aggregated, e.key, e.val.token, e.val.amount),
                 Tail(incentiveRewards))

RECURSIVE MergeUserTokens(_, _, _)
MergeUserTokens(global, user, userTokens) ==
    IF userTokens = <<>>
    THEN (IF MapHas(global, user) THEN global ELSE MapSet(global, user, <<>>))
    ELSE LET e == Head(userTokens)
         IN  MergeUserTokens(AddAmount(global, user, e.key, e.val),
                             user, Tail(userTokens))

\* transformVaultDataToRewards: the rewards of one vault merged into the
\* global ones.
RECURSIVE MergeVault(_, _)
MergeVault(global, vaultRewards) ==
    IF vaultRewards = <<>> THEN global
    ELSE LET e == Head(vaultRewards)
         IN  MergeVault(MergeUserTokens(global, e.key, e.val),
                        Tail(vaultRewards))

\* The same without the test amount > 0.
RECURSIVE FlattenUser_KeepZero(_, _)
FlattenUser_KeepZero(user, userTokens) ==
    IF userTokens = <<>> THEN <<>>
    ELSE <<[account |-> user, token |-> Head(userTokens).key,
            amount |-> BigIntToString(Head(userTokens).val)]>>
         \o FlattenUser_KeepZero(user, Tail(userTokens))

\* transformVaultDataToRewards: the entries of one user, amounts of zero
\* left out.
RECURSIVE FlattenUser(_, _)
FlattenUser(user, userTokens) ==
    IF userTokens = <<>> THEN <<>>
    ELSE LET e == Head(userTokens)
             rest == FlattenUser(user, Tail(userTokens))
         IN  IF e.val > 0
             THEN <<[account |-> user, token |-> e.key,
                     amount |-> BigIntToString(e.val)]>> \o rest
             ELSE rest

\* transformVaultDataToRewards: the global map as a RewardData array.
RECURSIVE FlattenRewards(_)
FlattenRewards(global) ==
    IF global = <<>> THEN <<>>
    ELSE FlattenUser(Head(global).key, Head(global).val)
             \o FlattenRewards(Tail(global))

(***************************************************************************)
(* MerkleService.createMerkleTree: the snapshot built from the rewards.    *)
(***************************************************************************)
\* An amount test without the comparison with zero.
ValidAmount_Digits(amount) == IsDigitString(amount)

\* The amount test of createMerkleTree.
ValidAmount(amount) == IsDigitString(amount) /\ ParseBigInt(amount) > 0

ValidReward(reward) ==
    /\ validateAddress(reward.account).ok
    /\ validateAddress(reward.token).ok
    /\ ValidAmount(reward.amount)

\* Totals that keep the last amount of a token instead of the sum.
RECURSIVE TotalRewards_Last(_, _)
TotalRewards_Last(rewardList, totalRewards) ==
    IF rewardList = <<>> THEN totalRewards
    ELSE TotalRewards_Last(Tail(rewardList),
             MapSet(totalRewards,
                    validateAddress(Head(rewardList).token).value,
                    Head(rewardList).amount))

\* createMerkleTree: the totals by lower-cased token.
RECURSIVE TotalRewards(_, _)
TotalRewards(rewardList, totalRewards) ==
    IF rewardList = <<>> THEN totalRewards
    ELSE LET reward == Head(rewardList)
             tokenAddress == validateAddress(reward.token).value
             current == IF MapHas(totalRewards, tokenAddress)
                        THEN MapGet(totalRewards, tokenAddress) ELSE <<"0">>
         IN  TotalRewards(Tail(rewardList),
                 MapSet(totalRewards, tokenAddress,
                        BigIntToString(ParseBigInt(current)
                                       + ParseBigInt(reward.amount))))

\* StandardMerkleTree.of throws on an empty list of leaves; it encodes each
\* leaf as (address, address, uint256), and the encoding of an address
\* throws unless 40 hexadecimal digits follow the prefix; createMerkleTree
\* throws in its turn.
HexDigits == Digits \cup {"a", "b", "c", "d", "e", "f",
                          "A", "B", "C", "D", "E", "F"}

Encodable(address) ==
    /\ Len(address) = AddressLength
    /\ address[1] = "0" /\ address[2] = "x"
    /\ \A i \in 3..Len(address) : address[i] \in HexDigits

EncodableReward(reward) ==
    /\ Encodable(validateAddress(reward.account).value)
    /\ Encodable(validateAddress(reward.token).value)

(***************************************************************************)
(* StandardMerkleTree of [address, address, uint256] leaves.  A hash is a   *)
(* term: the hash function is taken to be free of collisions, so two       *)
(* hashes are equal exactly when they were built the same way.  The ABI    *)
(* encoding of a leaf reads an address without its letter case and an      *)
(* amount as the number it spells.                                         *)
(***************************************************************************)
standardLeafHash(value) ==
    [leaf |-> <<toLowerCase(value[1]), toLowerCase(value[2]),
                ParseBigInt(value[3])>>,
     pair |-> {}]

\* hashPair sorts its two arguments before hashing them.
hashPair(a, b) == [leaf |-> <<>>, pair |-> {a, b}]

\* compareBytes on leaf hashes: a fixed total order of the hashes, here the
\* order of the encoded leaves.
HashChars == <<"0", "1", "2", "3", "4", "5", "6", "7", "8", "9",
               "a", "b", "c", "d", "e", "f", "x">>

CharRank(c) == CHOOSE i \in DOMAIN HashChars : HashChars[i] = c

HashKey(h) ==
    [i \in 1..(2 * AddressLength + 1) |->
       IF i <= AddressLength THEN CharRank(h.leaf[1][i])
       ELSE IF i <= 2 * AddressLength
            THEN CharRank(h.leaf[2][i - AddressLength])
            ELSE h.leaf[3]]

compareBytes(a, b) ==
    LET ka == HashKey(a)
        kb == HashKey(b)
    IN  IF \E i \in DOMAIN ka :
             ka[i] < kb[i] /\ \A j \in 1..(i - 1) : ka[j] = kb[j]
        THEN 0 - 1
        ELSE IF ka = kb THEN 0 ELSE 1

\* hashedValues.sort(compareBytes): a stable sort.
RECURSIVE SortByHash(_)
SortByHash(hashedValues) ==
    IF hashedValues = <<>> THEN <<>>
    ELSE LET rest == SortByHash(SubSeq(hashedValues, 1, Len(hashedValues) - 1))
             x == hashedValues[Len(hashedValues)]
             k == Cardinality({i \in DOMAIN rest :
                                 compareBytes(rest[i].hash, x.hash) <= 0})
         IN  SubSeq(rest, 1, k) \o <<x>> \o SubSeq(rest, k + 1, Len(rest))

\* makeMerkleTree: node k of the array (from 0) over the sorted leaf hashes.
RECURSIVE TreeNode(_, _)
TreeNode(leaves, k) ==
    IF k >= Len(leaves) - 1 THEN leaves[2 * Len(leaves) - 2 - k + 1]
    ELSE hashPair(TreeNode(leaves, 2 * k + 1), TreeNode(leaves, 2 * k + 2))

makeMerkleTree(leaves) ==
    [k \in 1..(2 * Len(leaves) - 1) |-> TreeNode(leaves, k - 1)]

\* getProof of the node at array index treeIndex (from 0): the siblings met
\* on the way up to the root.
RECURSIVE treeGetProof(_, _)
treeGetProof(tree, treeIndex) ==
    IF treeIndex = 0 THEN <<>>
    ELSE LET sibling == IF treeIndex % 2 = 1 THEN treeIndex + 1
                        ELSE treeIndex - 1
         IN  <<tree[sibling + 1]>>
               \o treeGetProof(tree, (treeIndex - 1) \div 2)

\* processProof: the root a leaf hash and a proof lead to.
RECURSIVE processProof(_, _)
processProof(leafHash, proof) ==
    IF proof = <<>> THEN leafHash
    ELSE processProof(hashPair(leafHash, proof[1]), Tail(proof))

\* StandardMerkleTree.of: the tree array and, for each value in the order
\* given, the array index of its leaf.
StandardMerkleTreeOf(values) ==
    LET hashedValues ==
          SortByHash([i \in DOMAIN values |->
                        [valueIndex |-> i,
                         hash |-> standardLeafHash(values[i])]])
        tree == makeMerkleTree([i \in DOMAIN hashedValues |->
                                  hashedValues[i].hash])
        leafIndexOf(i) ==
          CHOOSE l \in DOMAIN hashedValues : hashedValues[l].valueIndex = i
    IN  [tree |-> tree,
         treeIndex |-> [i \in DOMAIN values |-> Len(tree) - leafIndexOf(i)]]

\* The data object createMerkleTree writes, or Thrown when an entry is
\* rejected.  An optional timestamp is a set with at most one element.
\* treeData keeps the tree array of tree.dump().
createMerkleTree(rewardList, id, now) ==
    IF \E i \in DOMAIN rewardList : ~ValidReward(rewardList[i]) THEN Thrown
    ELSE IF rewardList = <<>>
            \/ \E i \in DOMAIN rewardList : ~EncodableReward(rewardList[i])
    THEN Thrown
    ELSE LET tree == StandardMerkleTreeOf(
                       [i \in DOMAIN rewardList |->
                          <<validateAddress(rewardList[i].account).value,
                            validateAddress(rewardList[i].token).value,
                            rewardList[i].amount>>])
    IN Returned(
      [merkleRoot |->
         [id |-> id,
          root |-> tree.tree[1],
          treeData |-> [tree |-> tree.tree],
          totalRewards |-> TotalRewards(rewardList, <<>>),
          recipientCount |-> Len(rewardList),
          status |-> "pending",
          createdAt |-> now,
          updatedAt |-> {},
          submittedAt |-> {},
          validAt |-> {}],
       entries |->
         [i \in DOMAIN rewardList |->
            [merkleRootId |-> id,
             account |-> validateAddress(rewardList[i].account).value,
             tokenAddress |-> validateAddress(rewardList[i].token).value,
             amount |-> rewardList[i].amount,
             proof |-> treeGetProof(tree.tree, tree.treeIndex[i]),
             leafIndex |-> i - 1]]])

(***************************************************************************)
(* State.                                                                  *)
(***************************************************************************)
VARIABLES
    \* the ./data directory: file name (the creation instant) -> content
    files,
    \* the wall clock, and the ids crypto.randomUUID has handed out
    clock, nextId,
    \* the createMerkleTree calls, the status requests
    save, upd,
    \* history: the data each save built, the ids the saves returned
    built, returned,
    \* generateTree: position, arguments, registry answer, result
    pc, chainId, includeDeprecated, vaults, runResult,
    \* transformVaultDataToRewards / processVaultIncentives: loop positions,
    \* the incentive at hand
    vi, ii, incentive, globalRewards, aggregatedRewards, incentiveRewards, rewards,
    \* fetchIncentiveLeaderboard
    page, hasMorePages, allEntries,
    \* history: the page requests of the incentive being fetched, the amounts
    \* the processed incentives returned, the causes of the throws so far
    fetchLog, credited, thrown,
    \* a single call of a function: its arguments and what it returned
    input, output

aggVars == <<pc, chainId, includeDeprecated, vaults, runResult, vi, ii,
             incentive, globalRewards, aggregatedRewards, incentiveRewards, rewards,
             page, hasMorePages, allEntries, fetchLog, credited, thrown>>

storeVars == <<files, clock, nextId, save, upd, built, returned>>

fnVars == <<input, output>>

vars == <<aggVars, storeVars, fnVars>>

(***************************************************************************)
(* MerkleService over the ./data directory.                                *)
(***************************************************************************)
\* Bun.write opens (creates or truncates) the file and then writes the text:
\* until the text is written the file holds a prefix of it, here the root
\* object without the entries.
Written(data) == [complete |-> TRUE, data |-> data]
Truncated(data) ==
    [complete |-> FALSE,
     data |-> [merkleRoot |-> data.merkleRoot, entries |-> <<>>]]

\* A reader that accepts whatever the file holds.
ReadJson_Lenient(content) == Returned(content.data)

\* Bun.file(path).json(): a prefix of a JSON text does not parse.
ReadJson(content) == IF content.complete THEN Returned(content.data) ELSE Thrown

\* The files a scan can read, in the order of their names.
Readable(fs) == {f \in DOMAIN fs : ReadJson(fs[f]).ok}

Null == [found |-> FALSE, value |-> <<>>]
Found(v) == [found |-> TRUE, value |-> v]

\* loadMerkleData: the first file that parses and holds the id.
loadMerkleData(fs, rootId) ==
    LET hits == {f \in Readable(fs) :
                   ReadJson(fs[f]).value.merkleRoot.id = rootId}
    IN  IF hits = {} THEN Null
        ELSE Found(ReadJson(fs[CHOOSE f \in hits : \A g \in hits : f <= g]).value)

\* getMerkleRoot
getMerkleRoot(fs, rootId) ==
    LET merkleData == loadMerkleData(fs, rootId)
    IN  IF merkleData.found THEN Found(merkleData.value.merkleRoot) ELSE Null

\* The first active root met, whenever it was created.
getLatestMerkleData_First(fs) ==
    LET active == {f \in Readable(fs) :
                     ReadJson(fs[f]).value.merkleRoot.status = "active"}
    IN  IF active = {} THEN Null
        ELSE Found(ReadJson(fs[CHOOSE f \in active :
                                 \A g \in active : f <= g]).value)

\* The root created last, whatever its status.
getLatestMerkleData_AnyStatus(fs) ==
    LET all == Readable(fs)
    IN  IF all = {} THEN Null
        ELSE Found(ReadJson(fs[
                 CHOOSE f \in all :
                   \A g \in all :
                     ReadJson(fs[g]).value.merkleRoot.createdAt
                       <= ReadJson(fs[f]).value.merkleRoot.createdAt]).value)

\* getLatestMerkleData: the active root created last among the files that
\* parse.
getLatestMerkleData(fs) ==
    LET active == {f \in Readable(fs) :
                     /\ ReadJson(fs[f]).value.merkleRoot.status = "active"
                     /\ ReadJson(fs[f]).value.merkleRoot.createdAt > 0}
    IN  IF active = {} THEN Null
        ELSE Found(ReadJson(fs[
                 CHOOSE f \in active :
                   \A g \in active :
                     \/ ReadJson(fs[g]).value.merkleRoot.createdAt
                          < ReadJson(fs[f]).value.merkleRoot.createdAt
                     \/ (ReadJson(fs[g]).value.merkleRoot.createdAt
                           = ReadJson(fs[f]).value.merkleRoot.createdAt
                         /\ f <= g)]).value)

\* The ClaimProof object built from an entry.
ClaimProof(entry) ==
    [account |-> entry.account, token |-> entry.tokenAddress,
     amount |-> entry.amount, proof |-> entry.proof]

\* The snapshot a proof is looked up in: the one of rootId when the call
\* carries one (a set of one id), the latest active one otherwise.
TargetData(fs, rootId) ==
    IF rootId # {}
    THEN loadMerkleData(fs, CHOOSE id \in rootId : TRUE)
    ELSE getLatestMerkleData(fs)

\* A lookup that compares the entries with the caller's spelling.
getProof_CaseSensitive(fs, account, token, rootId) ==
    LET merkleData == TargetData(fs, rootId)
        hits == IF merkleData.found
                THEN {i \in DOMAIN merkleData.value.entries :
                        /\ merkleData.value.entries[i].account = account
                        /\ merkleData.value.entries[i].tokenAddress = token}
                ELSE {}
    IN  IF ~validateAddress(account).ok \/ ~validateAddress(token).ok
        THEN Thrown
        ELSE IF hits = {} THEN Returned(Null)
        ELSE Returned(Found(ClaimProof(
                 merkleData.value.entries[CHOOSE i \in hits :
                                            \A j \in hits : i <= j])))

\* getProof: throws on an address validateAddress rejects, returns null
\* without a snapshot or a matching entry, else the first matching entry.
getProof(fs, account, token, rootId) ==
    LET normalizedAccount == validateAddress(account)
        normalizedToken == validateAddress(token)
        merkleData == TargetData(fs, rootId)
        hits == IF merkleData.found
                THEN {i \in DOMAIN merkleData.value.entries :
                        /\ toLowerCase(merkleData.value.entries[i].account)
                             = normalizedAccount.value
                        /\ toLowerCase(merkleData.value.entries[i].tokenAddress)
                             = normalizedToken.value}
                ELSE {}
    IN  IF ~normalizedAccount.ok \/ ~normalizedToken.ok THEN Thrown
        ELSE IF hits = {} THEN Returned(Null)
        ELSE Returned(Found(ClaimProof(
                 merkleData.value.entries[CHOOSE i \in hits :
                                            \A j \in hits : i <= j])))

\* getAccountProofs: the entries of the account, an empty array without a
\* snapshot.
getAccountProofs(fs, account, rootId) ==
    LET normalizedAccount == validateAddress(account)
        merkleData == TargetData(fs, rootId)
        entries == IF merkleData.found THEN merkleData.value.entries ELSE <<>>
    IN  IF ~normalizedAccount.ok THEN Thrown
        ELSE Returned(SelectSeq([i \in DOMAIN entries |-> ClaimProof(entries[i])],
                                LAMBDA e : toLowerCase(e.account)
                                             = normalizedAccount.value))

\* A verification that only looks the root up.
validateProof_RootOnly(fs, account, token, amount, proof, rootId) ==
    loadMerkleData(fs, rootId).found

\* validateProof: false without the snapshot of rootId, false when an
\* address is rejected or the leaf cannot be encoded (the error is caught),
\* else whether the proof leads from the leaf to the root of treeData.
validateProof(fs, account, token, amount, proof, rootId) ==
    LET merkleData == loadMerkleData(fs, rootId)
        normalizedAccount == validateAddress(account)
        normalizedToken == validateAddress(token)
    IN  IF ~merkleData.found THEN FALSE
        ELSE IF ~normalizedAccount.ok \/ ~normalizedToken.ok THEN FALSE
        ELSE IF \/ ~Encodable(normalizedAccount.value)
                \/ ~Encodable(normalizedToken.value)
                \/ ~IsDigitString(amount)
        THEN FALSE
        ELSE processProof(standardLeafHash(<<normalizedAccount.value,
                                             normalizedToken.value, amount>>),
                          proof)
               = merkleData.value.merkleRoot.treeData.tree[1]

\* The roots of the given files, created last first.
RECURSIVE SortedRoots(_, _)
SortedRoots(fs, names) ==
    IF names = {} THEN <<>>
    ELSE LET f == CHOOSE x \in names :
                    \A y \in names :
                      \/ ReadJson(fs[y]).value.merkleRoot.createdAt
                           < ReadJson(fs[x]).value.merkleRoot.createdAt
                      \/ (ReadJson(fs[y]).value.merkleRoot.createdAt
                            = ReadJson(fs[x]).value.merkleRoot.createdAt
                          /\ x <= y)
         IN  <<ReadJson(fs[f]).value.merkleRoot>> \o SortedRoots(fs, names \ {f})

\* A slice that also takes the element at its end index.
Slice_Inclusive(seq, from, to) ==
    SubSeq(seq, from + 1, IF to + 1 < Len(seq) THEN to + 1 ELSE Len(seq))

\* roots.slice(offset, offset + limit)
Slice(seq, from, to) ==
    SubSeq(seq, from + 1, IF to < Len(seq) THEN to ELSE Len(seq))

\* listMerkleRoots
listMerkleRoots(fs, limit, offset) ==
    Slice(SortedRoots(fs, Readable(fs)), offset, offset + limit)

\* A status change that refuses to leave revoked.
WithStatus_OneWay(merkleData, status, now, submittedAt, validAt) ==
    [merkleData EXCEPT
       !.merkleRoot.status = IF @ = "revoked" THEN @ ELSE status,
       !.merkleRoot.updatedAt = {now},
       !.merkleRoot.submittedAt = IF submittedAt # {} THEN submittedAt ELSE @,
       !.merkleRoot.validAt = IF validAt # {} THEN validAt ELSE @]

\* updateRootStatus: the loaded data with the new status and timestamps.
WithStatus(merkleData, status, now, submittedAt, validAt) ==
    [merkleData EXCEPT
       !.merkleRoot.status = status,
       !.merkleRoot.updatedAt = {now},
       !.merkleRoot.submittedAt = IF submittedAt # {} THEN submittedAt ELSE @,
       !.merkleRoot.validAt = IF validAt # {} THEN validAt ELSE @]

\* updateRootStatus: the file its second scan finds holding the id.
FileOf(fs, rootId) ==
    {f \in Readable(fs) : ReadJson(fs[f]).value.merkleRoot.id = rootId}

(***************************************************************************)
(* Inputs of an aggregation run.                                           *)
(***************************************************************************)
SeqsUpTo(S, n) == UNION {[1..k -> S] : k \in 0..n}

\* Accounts the indexer names: one account in two letter cases.
UserPool == {Addr("a"), Addr("A")}

\* The run reads the clock at 1: an incentive starting at 0 has started, one
\* starting at 2 is in the future.
IncentiveShapes == [startTimestamp : {0, 2}, token : {"MGV", "USDC"}]

\* A vault of the registry answer.  The run reads the fields of an incentive
\* only when its loop reaches it, so the answer holds the number of
\* incentives of each vault (vault.incentives.length) and the fields of an
\* incentive are drawn when the loop reads them.
VaultShapes == [isDeprecated : BOOLEAN, nIncentives : 0..MaxIncentives]

NoIncentive == [startTimestamp |-> 0, token |-> ""]

RECURSIVE SumIncentives(_)
SumIncentives(vaultList) ==
    IF vaultList = <<>> THEN 0
    ELSE Head(vaultList).nIncentives + SumIncentives(Tail(vaultList))

\* The registry answers the model draws: at most MaxVaults vaults holding at
\* most MaxIncentives incentives together.
VaultLists ==
    {l \in SeqsUpTo(VaultShapes, MaxVaults) : SumIncentives(l) <= MaxIncentives}

RewardValues == {Finite(k) : k \in 0..MaxReward} \cup {Infinity}

LeaderboardEntries == [user : UserPool, rewards : RewardValues]

\* What one page request can bring: a page of at most one record with the
\* page count, a response that is not ok, or an exception.
PageResponses ==
    [kind : {"ok"}, leaderboard : SeqsUpTo(LeaderboardEntries, 1),
     nPages : 1..MaxPages]
    \cup [kind : {"notOk", "throw"}, leaderboard : {<<>>}, nPages : {0}]

NoCredit == [u \in UserPool |-> 0]

(***************************************************************************)
(* generateTree.                                                           *)
(***************************************************************************)
AggIdle ==
    /\ vaults = <<>> /\ runResult = "running" /\ vi = 1 /\ ii = 1
    /\ incentive = NoIncentive
    /\ globalRewards = <<>> /\ aggregatedRewards = <<>>
    /\ incentiveRewards = <<>> /\ rewards = <<>>
    /\ page = 0 /\ hasMorePages = FALSE /\ allEntries = <<>>
    /\ fetchLog = <<>> /\ credited = NoCredit /\ thrown = {}

Savers == {"s1", "s2"}
Updaters == {"u1"}

IdleSave == [pc |-> "idle", input |-> <<>>, file |-> 0, data |-> <<>>]
IdleUpdate == [pc |-> "idle", via |-> "", rootId |-> 0, status |-> "",
               submittedAt |-> {}, validAt |-> {}, from |-> "", data |-> <<>>,
               file |-> 0]

FnIdle == input = <<>> /\ output = <<>>

StoreInit ==
    /\ files = <<>> /\ clock = 1 /\ nextId = 1
    /\ save = [p \in Savers |-> IdleSave]
    /\ upd = [q \in Updaters |-> IdleUpdate]
    /\ built = <<>>
    /\ returned = {}

AggInit ==
    /\ pc = "start"
    /\ chainId \in {8453, 5}
    /\ includeDeprecated \in BOOLEAN
    /\ AggIdle
    /\ StoreInit
    /\ FnIdle

\* The registry request: a failed request throws; no incentive at all ends
\* the run without a tree.
FetchVaults ==
    /\ pc = "start"
    /\ \/ /\ pc' = "done" /\ runResult' = "error"
          /\ UNCHANGED vaults
       \/ \E vaultData \in VaultLists :
            /\ vaults' = vaultData
            /\ IF SumIncentives(vaultData) = 0
               THEN pc' = "done" /\ runResult' = "skipped"
               ELSE pc' = "vault" /\ runResult' = runResult
    /\ UNCHANGED <<chainId, includeDeprecated, vi, ii, incentive, globalRewards,
                   aggregatedRewards, incentiveRewards, rewards, page,
                   hasMorePages, allEntries, fetchLog, credited, thrown,
                   storeVars, fnVars>>

\* processVaultIncentives: vault.isDeprecated && !includeDeprecated
IsSkippedVault(vault, withDeprecated) == vault.isDeprecated /\ ~withDeprecated

\* A run that passes over no future incentive.
IsFuture_Never(currentTime, inc) == FALSE

\* processVaultIncentives: currentTime < incentive.startTimestamp
IsFuture(currentTime, inc) == currentTime < inc.startTimestamp

\* The vault loop of transformVaultDataToRewards and the head of
\* processVaultIncentives.
StartVault ==
    /\ pc = "vault"
    /\ IF vi > Len(vaults)
       THEN pc' = "flatten" /\ UNCHANGED <<vi, ii, aggregatedRewards>>
       ELSE IF IsSkippedVault(vaults[vi], includeDeprecated)
       THEN pc' = "vault" /\ vi' = vi + 1 /\ UNCHANGED <<ii, aggregatedRewards>>
       ELSE pc' = "incentive" /\ ii' = 1 /\ aggregatedRewards' = <<>>
                              /\ UNCHANGED vi
    /\ UNCHANGED <<chainId, includeDeprecated, vaults, runResult, incentive,
                   globalRewards, incentiveRewards, rewards, page,
                   hasMorePages, allEntries, fetchLog, credited, thrown,
                   storeVars, fnVars>>

\* The incentive loop: the vault's rewards are merged when it ends, a future
\* incentive is passed over, another one starts its page loop.
NextIncentive ==
    /\ pc = "incentive"
    /\ IF ii > vaults[vi].nIncentives
       THEN /\ globalRewards' = MergeVault(globalRewards, aggregatedRewards)
            /\ vi' = vi + 1
            /\ pc' = "vault"
            /\ UNCHANGED <<ii, incentive, page, hasMorePages, allEntries,
                           fetchLog>>
       ELSE \E next \in IncentiveShapes :
              IF IsFuture(clock, next)
              THEN /\ ii' = ii + 1
                   /\ incentive' = next
                   /\ UNCHANGED <<pc, vi, globalRewards, page,
                                  hasMorePages, allEntries, fetchLog>>
              ELSE /\ pc' = "fetch"
                   /\ incentive' = next
                   /\ page' = 0 /\ hasMorePages' = TRUE /\ allEntries' = <<>>
                   /\ fetchLog' = <<>>
                   /\ UNCHANGED <<vi, ii, globalRewards>>
    /\ UNCHANGED <<chainId, includeDeprecated, vaults, runResult,
                   aggregatedRewards, incentiveRewards, rewards, credited,
                   thrown, storeVars, fnVars>>

\* A failed page request that discards the pages fetched before it.
EntriesAfterFailure_Drop(entries) == <<>>

\* allEntries after a page request that failed: the loop breaks.
EntriesAfterFailure(entries) == entries

\* One turn of the page loop of fetchIncentiveLeaderboard (indexer path).
FetchPage ==
    /\ pc = "fetch"
    /\ \E response \in PageResponses :
         /\ fetchLog' = Append(fetchLog, [page |-> page, response |-> response])
         /\ IF response.kind = "ok"
            THEN /\ allEntries' = allEntries \o response.leaderboard
                 /\ hasMorePages' = (page + 1 < response.nPages)
                 /\ page' = page + 1
                 /\ pc' = IF page + 1 < response.nPages THEN "fetch" ELSE "process"
            ELSE /\ allEntries' = EntriesAfterFailure(allEntries)
                 /\ pc' = "process"
                 /\ UNCHANGED <<page, hasMorePages>>
    /\ UNCHANGED <<chainId, includeDeprecated, vaults, runResult, vi, ii,
                   incentive, globalRewards, aggregatedRewards,
                   incentiveRewards, rewards, credited, thrown, storeVars, fnVars>>

\* A thrown incentive that ends the run instead of being skipped.
AfterThrow_Propagate == "done"

\* What the catch of processVaultIncentives does with a thrown incentive.
AfterThrow == "incentive"

\* processIncentive after the fetch: its map is returned to the caller, or
\* it throws into the catch of processVaultIncentives.
ProcessIncentive ==
    /\ pc = "process"
    /\ LET r == processIncentive(allEntries, chainId, incentive.token)
       IN  IF r.ok
           THEN /\ incentiveRewards' = r.value
                /\ pc' = "merge"
                /\ UNCHANGED <<ii, incentive, thrown>>
           ELSE /\ pc' = AfterThrow
                /\ ii' = ii + 1
                /\ incentive' = NoIncentive
                /\ thrown' = thrown \cup
                       {IF getTokenAddress(chainId, incentive.token).ok
                        THEN "amount" ELSE "token"}
                /\ UNCHANGED incentiveRewards
    /\ page' = 0 /\ hasMorePages' = FALSE /\ allEntries' = <<>>
    /\ fetchLog' = <<>>
    /\ UNCHANGED <<chainId, includeDeprecated, vaults, runResult, vi,
                   globalRewards, aggregatedRewards, rewards, credited,
                   storeVars, fnVars>>

\* The amounts of one incentive's map added to the history of credits.
RECURSIVE Credit(_, _)
Credit(c, incentiveMap) ==
    IF incentiveMap = <<>> THEN c
    ELSE LET e == Head(incentiveMap)
         IN  Credit([c EXCEPT ![e.key] = @ + e.val.amount], Tail(incentiveMap))

\* The aggregation loop of processVaultIncentives for one incentive.
MergeIncentive ==
    /\ pc = "merge"
    /\ aggregatedRewards' = AggregateIncentive(aggregatedRewards, incentiveRewards)
    /\ credited' = Credit(credited, incentiveRewards)
    /\ incentiveRewards' = <<>>
    /\ incentive' = NoIncentive
    /\ ii' = ii + 1
    /\ pc' = "incentive"
    /\ UNCHANGED <<chainId, includeDeprecated, vaults, runResult, vi,
                   globalRewards, rewards, page, hasMorePages, allEntries,
                   fetchLog, thrown, storeVars, fnVars>>

\* The end of transformVaultDataToRewards.
Flatten ==
    /\ pc = "flatten"
    /\ rewards' = FlattenRewards(globalRewards)
    /\ pc' = "build"
    /\ UNCHANGED <<chainId, includeDeprecated, vaults, runResult, vi, ii,
                   incentive, globalRewards, aggregatedRewards,
                   incentiveRewards, page, hasMorePages, allEntries, fetchLog,
                   credited, thrown, storeVars, fnVars>>

\* The end of generateTree: no reward or a dry run ends without a tree, a
\* rejected entry throws, otherwise the snapshot is written and its id
\* returned.
BuildTree ==
    /\ pc = "build"
    /\ pc' = "done"
    /\ IF rewards = <<>>
       THEN runResult' = "skipped" /\ UNCHANGED storeVars
       ELSE \/ runResult' = "skipped" /\ UNCHANGED storeVars
            \/ LET data == createMerkleTree(rewards, nextId, clock)
               IN  IF data.ok
                   THEN /\ files' = (clock :> [complete |-> TRUE,
                                               data |-> data.value]) @@ files
                        /\ nextId' = nextId + 1
                        /\ runResult' = "created"
                        /\ UNCHANGED <<clock, save, upd, built, returned>>
                   ELSE runResult' = "error" /\ UNCHANGED storeVars
    /\ UNCHANGED <<chainId, includeDeprecated, vaults, vi, ii, incentive,
                   globalRewards, aggregatedRewards, incentiveRewards, rewards, page,
                   hasMorePages, allEntries, fetchLog, credited, thrown, fnVars>>

AggNext ==
    \/ FetchVaults \/ StartVault \/ NextIncentive \/ FetchPage
    \/ ProcessIncentive \/ MergeIncentive \/ Flatten \/ BuildTree

SpecAgg == AggInit /\ [][AggNext]_vars

(***************************************************************************)
(* Properties of the aggregation run.                                      *)
(***************************************************************************)
\* The amount a map of processIncentive holds for a user, 0 when absent.
Contribution(incentiveMap, user) ==
    IF MapHas(incentiveMap, user) THEN MapGet(incentiveMap, user).amount ELSE 0

\* The sum of the converted amounts of the records of a user.
RECURSIVE SumConverted(_, _)
SumConverted(entries, user) ==
    IF entries = <<>> THEN 0
    ELSE LET e == Head(entries)
         IN  (IF e.user = user /\ IsPositive(e.rewards) /\ e.rewards.finite
              THEN toBaseUnits(e.rewards).value ELSE 0)
             + SumConverted(Tail(entries), user)

\* C1: when processIncentive returns, the amount it holds for each account
\* is the sum of the converted amounts of all the records fetched for that
\* account over the pages of the incentive.
C1_IncentiveSumsRecords ==
    [][(pc = "process" /\ pc' = "merge")
         => \A u \in UserPool :
              Contribution(incentiveRewards', u) = SumConverted(allEntries, u)]_vars

\* The entries of the returned array for an account, as the source spells it.
EntriesOf(rewardList, user) ==
    {i \in DOMAIN rewardList : rewardList[i].account = user}

\* C2: the array aggregate returns holds, for each account that the processed
\* incentives credited with a positive total, exactly one entry, of the MGV
\* token, whose amount is the integer sum of the amounts the incentives
\* returned for it, and no entry for any other account.
C2_OneEntryWithSum ==
    pc = "build" =>
      \A u \in UserPool :
        IF credited[u] > 0
        THEN \E i \in DOMAIN rewards :
               /\ EntriesOf(rewards, u) = {i}
               /\ rewards[i].token = MGVAddress
               /\ rewards[i].amount = BigIntToString(credited[u])
        ELSE EntriesOf(rewards, u) = {}

\* Two incentives of one vault each returned 1 for the same account.
C2_Witness ==
    /\ pc = "build"
    /\ Len(vaults) = 1
    /\ \E i \in DOMAIN rewards : rewards[i].amount = <<"2">>

\* C3: a run that met an incentive whose token symbol or chain has no entry
\* in the token table ends with an error and writes no snapshot.
C3_UnresolvedTokenAbortsRun ==
    (pc = "done" /\ "token" \in thrown) => (runResult = "error" /\ files = <<>>)

\* The records of the pages that answered, in request order.
RECURSIVE OkRecords(_)
OkRecords(log) ==
    IF log = <<>> THEN <<>>
    ELSE (IF Head(log).response.kind = "ok"
          THEN Head(log).response.leaderboard ELSE <<>>)
         \o OkRecords(Tail(log))

LastFailed(log) == log # <<>> /\ log[Len(log)].response.kind # "ok"

\* C4: a page request that fails ends the page loop of its incentive with
\* the records of the earlier pages kept; no page is requested after it;
\* those records are what processIncentive converts and what is then added
\* to the vault's rewards, and the loop goes on to the next incentive.
C4_FailedPageKeepsFetched ==
    [][/\ (pc = "fetch" /\ LastFailed(fetchLog'))
            => /\ pc' = "process"
               /\ allEntries' = OkRecords(fetchLog')
               /\ runResult' = "running"
       /\ (pc = "process" /\ LastFailed(fetchLog))
            => /\ fetchLog' = <<>>
               /\ LET r == processIncentive(OkRecords(fetchLog), chainId,
                                            incentive.token)
                  IN  r.ok => (pc' = "merge" /\ incentiveRewards' = r.value)
       /\ (pc = "merge")
            => /\ pc' = "incentive" /\ ii' = ii + 1
               /\ \A u \in UserPool :
                    credited'[u] = credited[u] + Contribution(incentiveRewards, u)
      ]_vars

\* The second page failed after the first brought a record.
C4_Witness ==
    /\ pc = "process"
    /\ Len(fetchLog) = 2
    /\ LastFailed(fetchLog)
    /\ allEntries # <<>>

\* The amounts of the returned array, by account.
AmountsMatchCredit ==
    \A u \in UserPool :
       /\ credited[u] > 0 =>
            \E i \in DOMAIN rewards :
               rewards[i].account = u
               /\ rewards[i].amount = BigIntToString(credited[u])
       /\ credited[u] = 0 => EntriesOf(rewards, u) = {}

\* C5: when processIncentive throws, the run goes on with the next
\* incentive, what was accumulated so far is unchanged and nothing of the
\* thrown incentive is added; every vault is visited before aggregate
\* returns, and what it returns is what the other incentives returned.
C5_ThrownIncentiveSkipped ==
    /\ [][(pc = "process"
           /\ ~processIncentive(allEntries, chainId, incentive.token).ok)
            => /\ pc' = "incentive" /\ ii' = ii + 1
               /\ aggregatedRewards' = aggregatedRewards
               /\ globalRewards' = globalRewards
               /\ credited' = credited
               /\ runResult' = "running"]_vars
    /\ [](pc \in {"flatten", "build"} => vi = Len(vaults) + 1)
    /\ []((pc = "build" /\ thrown # {}) => AmountsMatchCredit)

\* An incentive threw and the run still returned rewards.
C5_Witness == pc = "build" /\ thrown # {} /\ rewards # <<>>

\* C6: no two leaf entries of a written snapshot have the same lower-cased
\* account and token.
C6_NoDuplicateLeaves ==
    \A f \in DOMAIN files :
      files[f].complete =>
        LET entries == files[f].data.entries
        IN  \A i, j \in DOMAIN entries :
              (toLowerCase(entries[i].account) = toLowerCase(entries[j].account)
               /\ toLowerCase(entries[i].tokenAddress)
                    = toLowerCase(entries[j].tokenAddress))
              => i = j

\* C18: the array aggregate returns holds no entry whose amount is zero; a
\* run whose array is empty, or whose registry answer holds no incentive,
\* ends skipped, and the steps that end it write no file.
C18_NoZeroEntryNoEmptyTree ==
    /\ [](pc \in {"build", "done"} =>
            \A i \in DOMAIN rewards :
               /\ IsDigitString(rewards[i].amount)
               /\ ParseBigInt(rewards[i].amount) > 0)
    /\ [][/\ (pc = "build" /\ rewards = <<>>)
               => (pc' = "done" /\ runResult' = "skipped" /\ files' = files)
          /\ (pc = "start" /\ vaults' # <<>> /\ SumIncentives(vaults') = 0)
               => (pc' = "done" /\ runResult' = "skipped" /\ files' = files)
         ]_vars
    /\ []((pc = "done" /\ rewards = <<>>) => files = <<>>)

\* An account was credited an amount of zero, the array came out empty and
\* the run ended without a tree.
C18_Witness ==
    /\ pc = "done" /\ runResult = "skipped"
    /\ globalRewards # <<>>
    /\ rewards = <<>>
    /\ files = <<>>

\* C20: no page is requested and nothing is converted or added for an
\* incentive of a deprecated vault when includeDeprecated is false, nor for
\* an incentive that starts after the processing time; such a vault or
\* incentive is passed over with the accumulated rewards and the run's
\* result unchanged, and every other incentive has its pages requested.
C20_SkippedIncentiveContributesNothing ==
    /\ [](pc \in {"fetch", "process", "merge"} =>
            /\ vi \in DOMAIN vaults
            /\ ~(vaults[vi].isDeprecated /\ ~includeDeprecated)
            /\ incentive.startTimestamp <= clock)
    /\ [][/\ (pc = "incentive" /\ ii <= vaults[vi].nIncentives)
               => IF incentive'.startTimestamp > clock
                  THEN /\ pc' = "incentive" /\ ii' = ii + 1
                       /\ fetchLog' = <<>> /\ allEntries' = allEntries
                       /\ aggregatedRewards' = aggregatedRewards
                       /\ globalRewards' = globalRewards
                       /\ credited' = credited
                       /\ thrown' = thrown /\ runResult' = "running"
                  ELSE pc' = "fetch" /\ page' = 0
          /\ (pc = "vault" /\ vi <= Len(vaults))
               => IF vaults[vi].isDeprecated /\ ~includeDeprecated
                  THEN /\ pc' = "vault" /\ vi' = vi + 1
                       /\ fetchLog' = <<>>
                       /\ globalRewards' = globalRewards
                       /\ credited' = credited
                       /\ thrown' = thrown /\ runResult' = "running"
                  ELSE pc' = "incentive" /\ ii' = 1
         ]_vars

\* A deprecated vault holding an incentive was passed over, and then an
\* incentive of the next vault that has not started.
C20_Witness ==
    /\ pc = "incentive" /\ vi = 2
    /\ vaults[1].isDeprecated /\ vaults[1].nIncentives > 0
    /\ ~includeDeprecated
    /\ ii = 2 /\ incentive.startTimestamp > clock
    /\ fetchLog = <<>> /\ credited = NoCredit

(***************************************************************************)
(* The snapshot store under concurrent calls: createMerkleTree calls (of   *)
(* generateTree processes), status requests and the clock.  The aggregation*)
(* variables stay idle.                                                    *)
(***************************************************************************)
Statuses == {"pending", "submitted", "active", "revoked"}

\* The timestamps a status request carries.
TimestampInputs ==
    {[submittedAt |-> {}, validAt |-> {}],
     [submittedAt |-> {9}, validAt |-> {}],
     [submittedAt |-> {}, validAt |-> {8}]}

\* The reward lists handed to createMerkleTree; the last one is rejected.
SaveInputs ==
    {<<[account |-> Addr("A"), token |-> MGVAddress, amount |-> <<"1">>]>>,
     <<[account |-> Addr("A"), token |-> MGVAddress, amount |-> <<"1">>],
       [account |-> Addr("b"), token |-> MGVAddress, amount |-> <<"2">>],
       [account |-> Addr("b"), token |-> Addr("C"), amount |-> <<"1">>]>>,
     <<[account |-> Addr("b"), token |-> MGVAddress, amount |-> <<"0">>]>>}

StoreSpecInit ==
    /\ pc = "off" /\ chainId = 8453 /\ includeDeprecated = FALSE
    /\ AggIdle
    /\ StoreInit
    /\ FnIdle

\* createMerkleTree up to the write: the entries are checked, the file name
\* and createdAt are read from the clock and the id is drawn.
SaveStartFrom(p, rewardLists) ==
    /\ save[p].pc \in {"idle", "threw", "returned"}
    /\ nextId <= MaxRoots
    /\ \E rewardList \in rewardLists :
         LET r == createMerkleTree(rewardList, nextId, clock)
         IN  IF r.ok
             THEN /\ save' = [save EXCEPT ![p] = [pc |-> "open",
                                                  input |-> rewardList,
                                                  file |-> clock,
                                                  data |-> r.value]]
                  /\ nextId' = nextId + 1
                  /\ built' = Append(built, r.value)
             ELSE /\ save' = [save EXCEPT ![p] = [IdleSave EXCEPT
                                                    !.pc = "threw",
                                                    !.input = rewardList]]
                  /\ UNCHANGED <<nextId, built>>
    /\ UNCHANGED <<files, clock, upd, returned, aggVars, fnVars>>

SaveStart(p) == SaveStartFrom(p, SaveInputs)

\* Bun.write opens the file: it is created, or truncated when it exists.
SaveOpen(p) ==
    /\ save[p].pc = "open"
    /\ files' = (save[p].file :> Truncated(save[p].data)) @@ files
    /\ save' = [save EXCEPT ![p].pc = "write"]
    /\ UNCHANGED <<clock, nextId, upd, built, returned, aggVars, fnVars>>

\* Bun.write has written the text; createMerkleTree returns the id.
SaveClose(p) ==
    /\ save[p].pc = "write"
    /\ files' = (save[p].file :> Written(save[p].data)) @@ files
    /\ save' = [save EXCEPT ![p].pc = "returned"]
    /\ returned' = returned \cup {save[p].data.merkleRoot.id}
    /\ UNCHANGED <<clock, nextId, upd, built, aggVars, fnVars>>

Tick ==
    /\ clock < MaxClock
    /\ clock' = clock + 1
    /\ UNCHANGED <<files, nextId, save, upd, built, returned, aggVars, fnVars>>

\* updateRootStatus without the not-found check.
AfterLoad_Unchecked(merkleData) == "scan"

\* What updateRootStatus does when loadMerkleData finds the root or not.
AfterLoad(merkleData) == IF merkleData.found THEN "scan" ELSE "notfound"

\* The PATCH handler up to the call of updateRootStatus: 404 when
\* getMerkleRoot finds no root.
HandlerBody(q, statuses, timestamps) ==
    \E rootId \in 1..MaxRoots, status \in statuses, t \in timestamps :
       upd' = [upd EXCEPT ![q] =
                 [IdleUpdate EXCEPT
                    !.pc = IF getMerkleRoot(files, rootId).found
                           THEN "load" ELSE "404",
                    !.via = "http",
                    !.rootId = rootId, !.status = status,
                    !.submittedAt = t.submittedAt, !.validAt = t.validAt]]

HandlerCheckFrom(q, statuses, timestamps) ==
    /\ upd[q].pc = "idle"
    /\ HandlerBody(q, statuses, timestamps)
    /\ UNCHANGED <<files, clock, nextId, save, built, returned, aggVars, fnVars>>

HandlerCheck(q) == HandlerCheckFrom(q, Statuses, TimestampInputs)

\* updateRootStatus called by another caller than the handler.
ServiceCall(q) ==
    /\ upd[q].pc = "idle"
    /\ \E rootId \in 1..MaxRoots, status \in Statuses, t \in TimestampInputs :
         upd' = [upd EXCEPT ![q] =
                   [IdleUpdate EXCEPT
                      !.pc = "load", !.via = "service",
                      !.rootId = rootId, !.status = status,
                      !.submittedAt = t.submittedAt, !.validAt = t.validAt]]
    /\ UNCHANGED <<files, clock, nextId, save, built, returned, aggVars, fnVars>>

\* updateRootStatus: the load, the not-found throw, the changes in memory.
UpdLoad(q) ==
    /\ upd[q].pc = "load"
    /\ LET merkleData == loadMerkleData(files, upd[q].rootId)
       IN  upd' = [upd EXCEPT
                     ![q].pc = AfterLoad(merkleData),
                     ![q].from = IF merkleData.found
                                 THEN merkleData.value.merkleRoot.status
                                 ELSE "",
                     ![q].data = IF merkleData.found
                                 THEN WithStatus(merkleData.value, upd[q].status,
                                                 clock, upd[q].submittedAt,
                                                 upd[q].validAt)
                                 ELSE <<>>]
    /\ UNCHANGED <<files, clock, nextId, save, built, returned, aggVars, fnVars>>

\* updateRootStatus: the second scan, up to the file that holds the id.
UpdScan(q) ==
    /\ upd[q].pc = "scan"
    /\ LET hits == FileOf(files, upd[q].rootId)
       IN  IF hits = {}
           THEN upd' = [upd EXCEPT ![q].pc = "nofile"]
           ELSE upd' = [upd EXCEPT ![q].pc = "open",
                                   ![q].file = CHOOSE f \in hits :
                                                 \A g \in hits : f <= g]
    /\ UNCHANGED <<files, clock, nextId, save, built, returned, aggVars, fnVars>>

UpdOpen(q) ==
    /\ upd[q].pc = "open"
    /\ files' = (upd[q].file :> Truncated(upd[q].data)) @@ files
    /\ upd' = [upd EXCEPT ![q].pc = "write"]
    /\ UNCHANGED <<clock, nextId, save, built, returned, aggVars, fnVars>>

UpdClose(q) ==
    /\ upd[q].pc = "write"
    /\ files' = (upd[q].file :> Written(upd[q].data)) @@ files
    /\ upd' = [upd EXCEPT ![q].pc = "done"]
    /\ UNCHANGED <<clock, nextId, save, built, returned, aggVars, fnVars>>

\* The caller of a status call that has ended makes another one.
NextCall(q) ==
    /\ upd[q].pc \in {"401", "500", "404", "notfound", "nofile", "done"}
    /\ upd' = [upd EXCEPT ![q] = IdleUpdate]
    /\ UNCHANGED <<files, clock, nextId, save, built, returned, aggVars, fnVars>>

SaveNext ==
    \/ \E p \in Savers : SaveStart(p) \/ SaveOpen(p) \/ SaveClose(p)
    \/ Tick

StoreNext ==
    \/ SaveNext
    \/ \E q \in Updaters :
         \/ HandlerCheck(q) \/ ServiceCall(q) \/ UpdLoad(q)
         \/ UpdScan(q) \/ UpdOpen(q) \/ UpdClose(q)

\* Saves and the clock alone.
SpecSave == StoreSpecInit /\ [][SaveNext]_vars

\* Saves, status calls and the clock.
SpecStore == StoreSpecInit /\ [][StoreNext]_vars

\* One process that saves and one that makes status requests, one after
\* the other.
Creator == "s1"
Admin == "u1"

StatusNext ==
    \/ SaveStart(Creator) \/ SaveOpen(Creator) \/ SaveClose(Creator)
    \/ Tick
    \/ HandlerCheck(Admin) \/ UpdLoad(Admin) \/ UpdScan(Admin)
    \/ UpdOpen(Admin) \/ UpdClose(Admin) \/ NextCall(Admin)

SpecStatus == StoreSpecInit /\ [][StatusNext]_vars

\* The same with requests that activate or revoke and carry no timestamp.
ProofNext ==
    \/ SaveStart(Creator) \/ SaveOpen(Creator) \/ SaveClose(Creator)
    \/ Tick
    \/ HandlerCheckFrom(Admin, {"active", "revoked"},
                        {[submittedAt |-> {}, validAt |-> {}]})
    \/ UpdLoad(Admin) \/ UpdScan(Admin)
    \/ UpdOpen(Admin) \/ UpdClose(Admin) \/ NextCall(Admin)

SpecProof == StoreSpecInit /\ [][ProofNext]_vars

(***************************************************************************)
(* Properties of the snapshot store.                                       *)
(***************************************************************************)
\* A snapshot read back is the one built under the id: the entries and the
\* fields of the root that no status call changes.
SameSnapshot(data, id) ==
    /\ id \in DOMAIN built
    /\ data.entries = built[id].entries
    /\ data.merkleRoot.id = id
    /\ data.merkleRoot.totalRewards = built[id].merkleRoot.totalRewards
    /\ data.merkleRoot.recipientCount = built[id].merkleRoot.recipientCount
    /\ data.merkleRoot.createdAt = built[id].merkleRoot.createdAt

NoWriteInProgress == \A p \in Savers : save[p].pc \notin {"open", "write"}

\* C7: once the saves in progress have ended, every id a save has returned
\* is retrievable with the entries it was saved with.
C7_SavedRootsStay ==
    NoWriteInProgress =>
      \A id \in returned :
        LET merkleData == loadMerkleData(files, id)
        IN  merkleData.found /\ SameSnapshot(merkleData.value, id)

\* C8: whatever the writes in progress, what getById, list and
\* getLatestActive read for an id is the complete snapshot built under that
\* id, or nothing.
C8_ReadersSeeCompleteOrNothing ==
    /\ \A id \in 1..MaxRoots :
         LET merkleData == loadMerkleData(files, id)
         IN  merkleData.found => SameSnapshot(merkleData.value, id)
    /\ LET roots == listMerkleRoots(files, 50, 0)
       IN  \A i \in DOMAIN roots :
             /\ roots[i].id \in DOMAIN built
             /\ roots[i].totalRewards = built[roots[i].id].merkleRoot.totalRewards
             /\ roots[i].recipientCount
                  = built[roots[i].id].merkleRoot.recipientCount
             /\ loadMerkleData(files, roots[i].id).found
    /\ LET latest == getLatestMerkleData(files)
       IN  latest.found => SameSnapshot(latest.value, latest.value.merkleRoot.id)

\* A save has opened its file and not yet written it: a reader finds nothing
\* under its id.
C8_Witness ==
    \E p \in Savers :
       /\ save[p].pc = "write"
       /\ ~files[save[p].file].complete
       /\ ~loadMerkleData(files, save[p].data.merkleRoot.id).found

\* No two snapshots were given the same file name.
NoNameCollision ==
    \A i, j \in DOMAIN built :
       built[i].merkleRoot.createdAt = built[j].merkleRoot.createdAt => i = j

\* C9: every id a save has returned is found by getById and is in the list,
\* in every state (stated for the runs in which no two snapshots share a
\* file name).
C9_ReturnedRootStaysVisible ==
    NoNameCollision =>
      \A id \in returned :
         /\ getMerkleRoot(files, id).found
         /\ \E i \in DOMAIN listMerkleRoots(files, 50, 0) :
               listMerkleRoots(files, 50, 0)[i].id = id

\* A complete file holds the id.
Stored(fs, rootId) ==
    \E f \in DOMAIN fs : fs[f].complete /\ fs[f].data.merkleRoot.id = rootId

\* C10: updateRootStatus on an id that no file holds throws not-found, and
\* the handler answers 404 for it; neither step writes a file, and the call
\* ends there.
C10_UnknownRootNoWrite ==
    [][\A q \in Updaters :
         /\ (upd[q].pc = "load" /\ upd'[q] # upd[q]
             /\ ~Stored(files, upd[q].rootId))
              => (upd'[q].pc = "notfound" /\ files' = files)
         /\ (upd[q].pc = "idle" /\ upd'[q].via = "http"
             /\ ~Stored(files, upd'[q].rootId))
              => (upd'[q].pc = "404" /\ files' = files)
         /\ (upd[q].pc \in {"notfound", "404"}) => upd'[q] = upd[q]
      ]_vars

\* updateRootStatus has thrown not-found while a snapshot is stored.
C10_Witness ==
    /\ \E q \in Updaters : upd[q].pc = "notfound" /\ upd[q].via = "service"
    /\ \E f \in DOMAIN files : files[f].complete

\* What a status call may change of a snapshot: the status, updatedAt and
\* the timestamps the call carries.
OnlyStatusChanged(old, new, call) ==
    /\ new.entries = old.entries
    /\ new.merkleRoot.id = old.merkleRoot.id
    /\ new.merkleRoot.totalRewards = old.merkleRoot.totalRewards
    /\ new.merkleRoot.recipientCount = old.merkleRoot.recipientCount
    /\ new.merkleRoot.createdAt = old.merkleRoot.createdAt
    /\ call.submittedAt = {} => new.merkleRoot.submittedAt = old.merkleRoot.submittedAt
    /\ call.validAt = {} => new.merkleRoot.validAt = old.merkleRoot.validAt

OtherFilesUnchanged(f) ==
    /\ DOMAIN files' \ {f} = DOMAIN files \ {f}
    /\ \A g \in DOMAIN files \ {f} : files'[g] = files[g]

\* C11: the write of a status call replaces the stored snapshot of its root
\* by one that differs from it in nothing but the status, updatedAt and the
\* timestamps the call carries, and leaves every other file as it is.
C11_UpdateChangesOnlyStatus ==
    [][\A q \in Updaters :
         /\ (upd[q].pc = "open" /\ upd'[q].pc = "write")
              => /\ files[upd[q].file].complete
                 /\ files[upd[q].file].data.merkleRoot.id = upd[q].rootId
                 /\ OnlyStatusChanged(files[upd[q].file].data, upd[q].data,
                                      upd[q])
                 /\ OtherFilesUnchanged(upd[q].file)
         /\ (upd[q].pc = "write" /\ upd'[q].pc = "done")
              => /\ files'[upd[q].file] = Written(upd[q].data)
                 /\ OtherFilesUnchanged(upd[q].file)
      ]_vars

\* C12: no step of a status call looks at the current status: for a stored
\* root the handler passes the call on, the call loads the root, finds its
\* file and writes it, and what it writes holds the requested status,
\* whatever the status was.
C12_AnyTransitionAccepted ==
    [][\A q \in Updaters :
         /\ (upd[q].pc = "idle" /\ upd'[q].via = "http"
             /\ Stored(files, upd'[q].rootId))
              => upd'[q].pc = "load"
         /\ (upd[q].pc = "load" /\ upd'[q] # upd[q]
             /\ Stored(files, upd[q].rootId))
              => /\ upd'[q].pc = "scan"
                 /\ upd'[q].data.merkleRoot.status = upd[q].status
         /\ (upd[q].pc = "scan" /\ upd'[q] # upd[q]
             /\ Stored(files, upd[q].rootId))
              => upd'[q].pc = "open"
         /\ (upd[q].pc = "write" /\ upd'[q].pc = "done")
              => /\ files'[upd[q].file].complete
                 /\ files'[upd[q].file].data.merkleRoot.id = upd[q].rootId
                 /\ files'[upd[q].file].data.merkleRoot.status = upd[q].status
      ]_vars

\* A call has moved a revoked root back to pending.
C12_Witness ==
    \E q \in Updaters :
       /\ upd[q].pc = "done"
       /\ upd[q].from = "revoked" /\ upd[q].status = "pending"
       /\ getMerkleRoot(files, upd[q].rootId).found
       /\ getMerkleRoot(files, upd[q].rootId).value.status = "pending"

\* The stored snapshots whose status is active.
ActiveFiles ==
    {f \in DOMAIN files :
       files[f].complete /\ files[f].data.merkleRoot.status = "active"}

\* C13: getLatestActive finds nothing exactly when no stored snapshot is
\* active; what it finds is a stored snapshot, active, created no earlier
\* than any other active one.
C13_LatestActive ==
    LET latest == getLatestMerkleData(files)
    IN  IF ActiveFiles = {} THEN ~latest.found
        ELSE /\ latest.found
             /\ latest.value.merkleRoot.status = "active"
             /\ \E f \in ActiveFiles : files[f].data = latest.value
             /\ \A g \in ActiveFiles :
                  files[g].data.merkleRoot.createdAt
                    <= latest.value.merkleRoot.createdAt

\* Two snapshots created at different instants are active; the later one is
\* found.
C13_Witness ==
    /\ Cardinality(ActiveFiles) = 2
    /\ \A f \in ActiveFiles :
         getLatestMerkleData(files).value.merkleRoot.createdAt
           >= files[f].data.merkleRoot.createdAt
    /\ \E f \in ActiveFiles :
         getLatestMerkleData(files).value.merkleRoot.createdAt
           > files[f].data.merkleRoot.createdAt

\* The callers of getProof: accounts and tokens in the stored spelling and
\* in others, with a root id or without.
ProofAccounts == {Addr("a"), Addr("A"), Addr("B"), Addr("d")}
ProofTokens == {MGVAddress, Addr("c")}
ProofRootIds == {{}} \cup {{id} : id \in 1..(MaxRoots + 1)}

\* The stored snapshots a call with that rootId is about.
TargetFiles(rootId) ==
    IF rootId = {}
    THEN {f \in ActiveFiles :
            \A g \in ActiveFiles :
               files[g].data.merkleRoot.createdAt
                 <= files[f].data.merkleRoot.createdAt}
    ELSE {f \in DOMAIN files :
            files[f].complete /\ files[f].data.merkleRoot.id \in rootId}

\* The leaves of a stored snapshot for the lower-cased account and token.
LeavesOf(f, account, token) ==
    {ClaimProof(files[f].data.entries[i]) : i \in
       {j \in DOMAIN files[f].data.entries :
          /\ files[f].data.entries[j].account = toLowerCase(account)
          /\ files[f].data.entries[j].tokenAddress = toLowerCase(token)}}

\* C14: for well-formed addresses in any letter case getProof returns a
\* leaf of the snapshot of rootId, or of the latest active snapshot when no
\* rootId is given, whose account and token are the lower-cased ones asked
\* for, and null when there is no such snapshot or no such leaf.
C14_ProofOfTargetSnapshot ==
    \A account \in ProofAccounts, token \in ProofTokens,
       rootId \in ProofRootIds :
       LET r == getProof(files, account, token, rootId)
           leaves == UNION {LeavesOf(f, account, token) :
                              f \in TargetFiles(rootId)}
       IN  /\ r.ok
           /\ IF leaves = {} THEN ~r.value.found
              ELSE r.value.found /\ r.value.value \in leaves

\* Asked in upper case and without a rootId, the leaf of the latest active
\* snapshot is returned; an account without a leaf gets null; a pending
\* snapshot is served by its id.
C14_Witness ==
    /\ getProof(files, Addr("B"), MGVAddress, {}).value.found
    /\ getProof(files, Addr("B"), MGVAddress, {}).value.value.amount = <<"2">>
    /\ ~getProof(files, Addr("d"), MGVAddress, {}).value.found
    /\ \E id \in 1..MaxRoots :
         /\ getMerkleRoot(files, id).found
         /\ getMerkleRoot(files, id).value.status = "pending"
         /\ getProof(files, Addr("A"), MGVAddress, {id}).value.found

\* The sum of the amounts of the entries of a token.
RECURSIVE SumOfToken(_, _)
SumOfToken(entries, token) ==
    IF entries = <<>> THEN 0
    ELSE (IF Head(entries).tokenAddress = token
          THEN ParseBigInt(Head(entries).amount) ELSE 0)
         + SumOfToken(Tail(entries), token)

TotalsMatch(data) ==
    LET tokens == {data.entries[i].tokenAddress : i \in DOMAIN data.entries}
        totals == data.merkleRoot.totalRewards
    IN  /\ data.merkleRoot.recipientCount = Len(data.entries)
        /\ {totals[i].key : i \in DOMAIN totals} = tokens
        /\ \A t \in tokens :
             ParseBigInt(MapGet(totals, t)) = SumOfToken(data.entries, t)

\* C15: in every stored snapshot the total of each token is the sum of the
\* amounts of the entries of that token, no other token has a total, and
\* recipientCount is the number of entries.
C15_TotalsMatchEntries ==
    \A f \in DOMAIN files : files[f].complete => TotalsMatch(files[f].data)

\* A snapshot of three entries and two tokens whose status a call changed.
C15_Witness ==
    \E f \in DOMAIN files :
       /\ files[f].complete
       /\ Len(files[f].data.entries) = 3
       /\ Len(files[f].data.merkleRoot.totalRewards) = 2
       /\ files[f].data.merkleRoot.status = "submitted"
       /\ files[f].data.merkleRoot.updatedAt # {}

(***************************************************************************)
(* transformVaultDataToRewards over the vaults in another order.           *)
(***************************************************************************)
\* The vaults of one call.
OrderVaults == 3

\* transformVaultDataToRewards: the vault loop, given what
\* processVaultIncentives returned for each vault.
RECURSIVE MergeVaults(_, _)
MergeVaults(global, vaultRewardsList) ==
    IF vaultRewardsList = <<>> THEN global
    ELSE MergeVaults(MergeVault(global, Head(vaultRewardsList)),
                     Tail(vaultRewardsList))

\* What processVaultIncentives can return for a vault: no account, one, or
\* both in either insertion order, each with an amount of the MGV token.
TokenMap(amount) == <<[key |-> MGVAddress, val |-> amount]>>

VaultRewardMaps ==
    {<<>>}
    \cup {<<[key |-> u, val |-> TokenMap(a)]>> :
            u \in UserPool, a \in 0..MaxReward}
    \cup {<<[key |-> u[1], val |-> TokenMap(a[1])],
            [key |-> u[2], val |-> TokenMap(a[2])]>> :
            u \in {w \in UserPool \X UserPool : w[1] # w[2]},
            a \in (0..MaxReward) \X (0..MaxReward)}

Orders(n) == {f \in [1..n -> 1..n] : \A i, j \in 1..n : f[i] = f[j] => i = j}

OrderInit ==
    /\ pc = "off" /\ chainId = 8453 /\ includeDeprecated = FALSE
    /\ AggIdle /\ StoreInit
    /\ input \in [1..OrderVaults -> VaultRewardMaps]
    /\ output = <<>>

\* The vaults are processed in the order drawn.
Reorder ==
    /\ output = <<>>
    /\ \E order \in Orders(Len(input)) :
         output' = [order |-> order,
                    rewards |-> FlattenRewards(MergeVaults(<<>>,
                                  [i \in DOMAIN input |-> input[order[i]]]))]
    /\ UNCHANGED <<input, aggVars, storeVars>>

SpecOrder == OrderInit /\ [][Reorder]_vars

EntrySet(rewardList) == {rewardList[i] : i \in DOMAIN rewardList}

\* C19: the entries returned for the vaults processed in any order are, as
\* a set, the entries returned for them in the order given, and as many.
C19_VaultOrderIrrelevant ==
    output # <<>> =>
      LET given == FlattenRewards(MergeVaults(<<>>, input))
      IN  /\ EntrySet(output.rewards) = EntrySet(given)
          /\ Len(output.rewards) = Len(given)

\* Vaults crediting the same account 1 and 2 were processed in another
\* order; the array came out in another order, with the sum 3.
C19_Witness ==
    /\ output # <<>>
    /\ output.order # [i \in 1..OrderVaults |-> i]
    /\ output.rewards # FlattenRewards(MergeVaults(<<>>, input))
    /\ \E i \in DOMAIN output.rewards : output.rewards[i].amount = <<"3">>

(***************************************************************************)
(* createMerkleTree on lists that hold a malformed entry.                  *)
(***************************************************************************)
\* Address strings: one character short, without the 0x prefix, with a
\* character that is no hexadecimal digit.
ShortAddress == <<"0", "x">> \o [i \in 1..(AddressLength - 3) |-> "a"]
UnprefixedAddress == <<"1", "x">> \o [i \in 1..(AddressLength - 2) |-> "a"]
NonHexAddress == Addr("g")

BadAddresses == {ShortAddress, UnprefixedAddress, NonHexAddress}

\* Amount strings: zero, negative, not a number, empty.
BadAmounts == {<<"0">>, <<"-", "1">>, <<"x">>, <<>>}

GoodReward == [account |-> Addr("A"), token |-> MGVAddress, amount |-> <<"1">>]

\* A good entry, and the entries that differ from it in one malformed field.
BuildRewards ==
    {GoodReward}
    \cup {[GoodReward EXCEPT !.account = a] : a \in BadAddresses}
    \cup {[GoodReward EXCEPT !.token = a] : a \in BadAddresses}
    \cup {[GoodReward EXCEPT !.amount = a] : a \in BadAmounts}

\* The lists handed to createMerkleTree.
MaxBatch == 2
BuildInputs == SeqsUpTo(BuildRewards, MaxBatch)

BuildNext ==
    \/ SaveStartFrom(Creator, BuildInputs)
    \/ SaveOpen(Creator) \/ SaveClose(Creator)
    \/ Tick

SpecBuild == StoreSpecInit /\ [][BuildNext]_vars

\* An address as the specification defines it.
WellFormedAddress(s) ==
    /\ Len(s) = 42
    /\ s[1] = "0" /\ s[2] = "x"
    /\ \A i \in 3..42 : s[i] \in HexDigits

WellFormedAmount(s) ==
    /\ Len(s) > 0
    /\ \A i \in DOMAIN s : s[i] \in Digits
    /\ \E i \in DOMAIN s : s[i] # "0"

WellFormedReward(reward) ==
    /\ WellFormedAddress(reward.account)
    /\ WellFormedAddress(reward.token)
    /\ WellFormedAmount(reward.amount)

\* C16: a createMerkleTree call whose list holds an entry with a malformed
\* account, token or amount throws, and its step changes no file and builds
\* no snapshot; no file ever holds an entry of such a list.
C16_BadEntryRejectsBatch ==
    /\ [][\A p \in Savers :
            (save'[p] # save[p] /\ save[p].pc \in {"idle", "threw", "returned"}
             /\ \E i \in DOMAIN save'[p].input :
                  ~WellFormedReward(save'[p].input[i]))
              => /\ save'[p].pc = "threw"
                 /\ files' = files
                 /\ built' = built /\ nextId' = nextId
                 /\ returned' = returned
         ]_vars
    /\ [](\A p \in Savers :
            save[p].pc \in {"open", "write", "returned"} =>
              \A i \in DOMAIN save[p].input :
                 WellFormedReward(save[p].input[i]))
    /\ [](\A f \in DOMAIN files :
            \E id \in DOMAIN built :
               /\ files[f].data.merkleRoot = built[id].merkleRoot
               /\ files[f].complete => files[f].data = built[id])

\* A list whose first entry is good and whose second is not was rejected
\* while a snapshot was stored: the store is as it was.
C16_Witness ==
    /\ save[Creator].pc = "threw"
    /\ Len(save[Creator].input) = 2
    /\ WellFormedReward(save[Creator].input[1])
    /\ ~WellFormedReward(save[Creator].input[2])
    /\ \E f \in DOMAIN files : files[f].complete
    /\ \A f \in DOMAIN files : files[f].complete

(***************************************************************************)
(* The operations that take an address, on one address each.               *)
(***************************************************************************)
LongAddress == Addr("a") \o <<"a">>
UpperPrefixAddress == <<"0", "X">> \o [i \in 1..(AddressLength - 2) |-> "a"]

CallAddresses ==
    {Addr("a"), Addr("A"), Addr("F"), Addr("0"), MGVAddress,
     UpperPrefixAddress, ShortAddress, LongAddress, UnprefixedAddress,
     NonHexAddress, <<>>}

\* The operation called and the argument the address is given as.
AddressOps ==
    {"validateAddress", "getProof.account", "getProof.token",
     "getAccountProofs.account", "createMerkleTree.account",
     "createMerkleTree.token"}

AddressInit ==
    /\ pc = "off" /\ chainId = 8453 /\ includeDeprecated = FALSE
    /\ AggIdle /\ StoreInit
    /\ input \in [op : AddressOps, address : CallAddresses]
    /\ output = <<>>

\* The call is made; what it returned or that it threw is kept.
CallWithAddress ==
    /\ output = <<>>
    /\ output' =
         CASE input.op = "validateAddress" -> validateAddress(input.address)
           [] input.op = "getProof.account" ->
                getProof(files, input.address, MGVAddress, {})
           [] input.op = "getProof.token" ->
                getProof(files, Addr("a"), input.address, {})
           [] input.op = "getAccountProofs.account" ->
                getAccountProofs(files, input.address, {})
           [] input.op = "createMerkleTree.account" ->
                createMerkleTree(<<[GoodReward EXCEPT !.account = input.address]>>,
                                 nextId, clock)
           [] OTHER ->
                createMerkleTree(<<[GoodReward EXCEPT !.token = input.address]>>,
                                 nextId, clock)
    /\ UNCHANGED <<input, aggVars, storeVars>>

SpecAddress == AddressInit /\ [][CallWithAddress]_vars

\* C17: each operation throws when its address is not 0x followed by 40
\* hexadecimal digits; validateAddress and createMerkleTree turn an address
\* they accept into lower case.
C17_MalformedAddressRejected ==
    output # <<>> =>
      IF WellFormedAddress(input.address)
      THEN /\ output.ok
           /\ input.op = "validateAddress"
                => output.value = toLowerCase(input.address)
           /\ input.op = "createMerkleTree.account"
                => output.value.entries[1].account = toLowerCase(input.address)
           /\ input.op = "createMerkleTree.token"
                => output.value.entries[1].tokenAddress
                     = toLowerCase(input.address)
      ELSE ~output.ok

(***************************************************************************)
(* Proof verification, checked under SpecSave.                            *)
(***************************************************************************)
VerifyAccounts == {Addr("a"), Addr("A"), Addr("B"), Addr("d"), ShortAddress}
VerifyTokens == {MGVAddress, Addr("c")}
VerifyAmounts == {<<"1">>, <<"2">>, <<"0", "1">>, <<>>}
VerifyRootIds == 1..(MaxRoots + 1)

\* The proofs stored with some leaf, each also with its first hash dropped
\* and with a hash appended.
StoredProofs ==
    UNION {{files[f].data.entries[i].proof : i \in DOMAIN files[f].data.entries} :
             f \in {g \in DOMAIN files : files[g].complete}}

VerifyProofs ==
    StoredProofs \cup {<<>>}
      \cup {Tail(proof) : proof \in StoredProofs \ {<<>>}}
      \cup {Append(proof, standardLeafHash(<<Addr("d"), MGVAddress, <<"1">>>>)) :
               proof \in StoredProofs}

\* The call names a leaf of the stored snapshot rootId together with the
\* proof stored for it: the same account and token whatever the letter
\* case, the same number as amount.
IsStoredLeaf(account, token, amount, proof, rootId) ==
    /\ validateAddress(account).ok /\ validateAddress(token).ok
    /\ IsDigitString(amount)
    /\ \E f \in DOMAIN files :
         /\ files[f].complete
         /\ files[f].data.merkleRoot.id = rootId
         /\ \E i \in DOMAIN files[f].data.entries :
              LET entry == files[f].data.entries[i]
              IN  /\ entry.account = toLowerCase(account)
                  /\ entry.tokenAddress = toLowerCase(token)
                  /\ ParseBigInt(entry.amount) = ParseBigInt(amount)
                  /\ entry.proof = proof

\* C21: validateProof returns true for the account, token, amount and proof
\* of a leaf of the stored root it is asked about, and false for every
\* other account, token, amount, proof or root id, an unknown root id
\* included; it never throws.
C21_ProofVerifiesOnlyItsLeaf ==
    \A account \in VerifyAccounts, token \in VerifyTokens,
       amount \in VerifyAmounts, proof \in VerifyProofs,
       rootId \in VerifyRootIds :
       validateProof(files, account, token, amount, proof, rootId)
         = IsStoredLeaf(account, token, amount, proof, rootId)

\* A leaf of a tree of three leaves verifies with its stored proof, and no
\* longer with another amount, another account, a shortened proof or an
\* unknown root id.
C21_Witness ==
    \E id \in 1..MaxRoots, proof \in StoredProofs :
       /\ Len(proof) > 0
       /\ validateProof(files, Addr("B"), MGVAddress, <<"2">>, proof, id)
       /\ ~validateProof(files, Addr("B"), MGVAddress, <<"1">>, proof, id)
       /\ ~validateProof(files, Addr("d"), MGVAddress, <<"2">>, proof, id)
       /\ ~validateProof(files, Addr("B"), MGVAddress, <<"2">>, Tail(proof), id)
       /\ ~validateProof(files, Addr("B"), MGVAddress, <<"2">>, proof,
                         MaxRoots + 1)

(***************************************************************************)
(* The order of the entries handed to createMerkleTree, checked under      *)
(* SpecSave.                                                               *)
(***************************************************************************)
\* The lists that hold the entries of rewardList in another order.
Reorderings(rewardList) ==
    {[i \in DOMAIN rewardList |-> rewardList[q[i]]] :
       q \in {r \in [DOMAIN rewardList -> DOMAIN rewardList] :
                \A i, j \in DOMAIN rewardList : r[i] = r[j] => i = j}}

\* The snapshots a saver has built from its list.
BuiltBy(p) == save[p].pc \in {"open", "write", "returned"}

SameLeaf(a, b) ==
    /\ a.account = b.account /\ a.tokenAddress = b.tokenAddress
    /\ a.amount = b.amount

\* Two snapshots have the same root hash and give each entry the same proof.
SameRootAndProofs(x, y) ==
    /\ x.merkleRoot.root = y.merkleRoot.root
    /\ \A i \in DOMAIN x.entries, j \in DOMAIN y.entries :
         SameLeaf(x.entries[i], y.entries[j])
           => x.entries[i].proof = y.entries[j].proof

SameLeafIndex(x, y) ==
    \A i \in DOMAIN x.entries, j \in DOMAIN y.entries :
       SameLeaf(x.entries[i], y.entries[j])
         => x.entries[i].leafIndex = y.entries[j].leafIndex

\* C22: the snapshot built from a list of entries has the root hash, and
\* for every entry the leafIndex and the proof, of the snapshot built from
\* the same entries in any other order.
C22_TreeIndependentOfOrder ==
    \A p \in Savers :
       BuiltBy(p) =>
         \A other \in Reorderings(save[p].input) :
            LET y == createMerkleTree(other, save[p].data.merkleRoot.id,
                                      save[p].data.merkleRoot.createdAt).value
            IN  /\ SameRootAndProofs(save[p].data, y)
                /\ SameLeafIndex(save[p].data, y)

(***************************************************************************)
(* The admin middleware in front of the status endpoint.                   *)
(***************************************************************************)
\* A header value is the sequence of its words and of the single spaces
\* between and around them.
Space == " "

WordOf(s) == IF s = <<>> THEN "" ELSE s[1]

\* String.prototype.split(' ')
RECURSIVE Split(_)
Split(s) ==
    IF \A i \in DOMAIN s : s[i] # Space THEN <<WordOf(s)>>
    ELSE LET i == CHOOSE j \in DOMAIN s :
                    s[j] = Space /\ \A k \in 1..(j - 1) : s[k] # Space
         IN  <<WordOf(SubSeq(s, 1, i - 1))>> \o Split(SubSeq(s, i + 1, Len(s)))

\* An admin check that does not look at the scheme.
adminAuth_AnyScheme(expectedKey, authHeader) ==
    IF expectedKey = {} \/ expectedKey = {""} THEN "500"
    ELSE IF authHeader = {} \/ authHeader = {<<>>} THEN "401"
    ELSE LET parts == Split(CHOOSE h \in authHeader : TRUE)
         IN  IF Len(parts) < 2 \/ parts[2] = "" THEN "401"
             ELSE IF {parts[2]} # expectedKey THEN "401"
             ELSE "next"

\* adminAuth: 500 without a configured key, 401 without a header, without a
\* key in it, with another scheme or with another key; else the handler
\* runs.  An absent value is the empty set.
adminAuth(expectedKey, authHeader) ==
    IF expectedKey = {} \/ expectedKey = {""} THEN "500"
    ELSE IF authHeader = {} \/ authHeader = {<<>>} THEN "401"
    ELSE LET parts == Split(CHOOSE h \in authHeader : TRUE)
             scheme == parts[1]
         IN  IF Len(parts) < 2 \/ parts[2] = ""
                \/ (scheme # "Bearer" /\ scheme # "ApiKey")
             THEN "401"
             ELSE IF {parts[2]} # expectedKey THEN "401"
             ELSE "next"

\* The values of ADMIN_API_KEY a server is started with.
AdminKeys == {{}, {""}, {"k1"}}

\* The Authorization headers of the requests: none, the two accepted forms,
\* another key, other schemes, a key or a scheme alone, an empty header, two
\* spaces, text after the key.
AuthHeaders ==
    {{}, {<<>>},
     {<<"Bearer", Space, "k1">>}, {<<"ApiKey", Space, "k1">>},
     {<<"Bearer", Space, "k2">>}, {<<"Basic", Space, "k1">>},
     {<<"bearer", Space, "k1">>}, {<<"k1">>}, {<<"Bearer">>},
     {<<"Bearer", Space>>}, {<<"Bearer", Space, Space, "k1">>},
     {<<"Bearer", Space, "k1", Space, "k2">>}}

AuthInit ==
    /\ pc = "off" /\ chainId = 8453 /\ includeDeprecated = FALSE
    /\ AggIdle /\ StoreInit
    /\ input \in [ADMIN_API_KEY : AdminKeys, authHeader : {{}}]
    /\ output = <<>>

\* PATCH /merkle/roots/{rootId}/status: adminAuth, then the handler.
PatchStatus(q) ==
    /\ upd[q].pc = "idle"
    /\ \E authHeader \in AuthHeaders :
         /\ input' = [input EXCEPT !.authHeader = authHeader]
         /\ LET passed == adminAuth(input.ADMIN_API_KEY, authHeader)
            IN  IF passed = "next"
                THEN HandlerBody(q, {"submitted", "active", "revoked"},
                                 {[submittedAt |-> {}, validAt |-> {}]})
                ELSE upd' = [upd EXCEPT ![q] = [IdleUpdate EXCEPT !.pc = passed]]
    /\ UNCHANGED <<files, clock, nextId, save, built, returned, aggVars, output>>

AuthNext ==
    \/ SaveStart(Creator) \/ SaveOpen(Creator) \/ SaveClose(Creator)
    \/ Tick
    \/ PatchStatus(Admin)
    \/ UpdLoad(Admin) \/ UpdScan(Admin)
    \/ UpdOpen(Admin) \/ UpdClose(Admin) \/ NextCall(Admin)

SpecAuth == AuthInit /\ [][AuthNext]_vars

\* The request carries the configured key after the scheme Bearer or ApiKey.
ValidCredentials ==
    /\ input.ADMIN_API_KEY = {"k1"}
    /\ \E h \in input.authHeader :
         /\ Len(h) >= 3
         /\ h[1] \in {"Bearer", "ApiKey"} /\ h[2] = Space /\ h[3] = "k1"
         /\ (Len(h) > 3 => h[4] = Space)

\* C23: a request to the status endpoint gets past the middleware only with
\* an Authorization header that gives the scheme Bearer or ApiKey and then
\* the configured ADMIN_API_KEY; a request without a header, with another
\* scheme, with another key, or to a server without a configured key is
\* answered 401 or 500, and no step of it changes a file.
C23_OnlyAdminChangesStatus ==
    /\ [](\A q \in Updaters :
            upd[q].pc \notin {"idle", "401", "500"} => ValidCredentials)
    /\ [](\A q \in Updaters :
            (upd[q].pc # "idle" /\ ~ValidCredentials)
              => upd[q].pc \in {"401", "500"})
    /\ [][(\A q \in Updaters : upd[q].pc \in {"idle", "401", "500"})
           => (files' # files => save' # save)]_vars

\* A root was set active by a request with the key, and a request with the
\* scheme Bearer and another key has been answered 401 and left it so.
C23_Witness ==
    /\ upd[Admin].pc = "401"
    /\ input.authHeader = {<<"Bearer", Space, "k2">>}
    /\ \E f \in DOMAIN files :
         files[f].complete /\ files[f].data.merkleRoot.status = "active"

(***************************************************************************)
(* The list and detail endpoints behind optionalAuth.                      *)
(***************************************************************************)
\* optionalAuth: isAdmin is set only for a header with the configured key.
optionalAuth(expectedKey, authHeader) ==
    /\ authHeader # {} /\ authHeader # {<<>>}
    /\ expectedKey # {} /\ expectedKey # {""}
    /\ LET parts == Split(CHOOSE h \in authHeader : TRUE)
       IN  /\ Len(parts) >= 2 /\ parts[2] # ""
           /\ parts[1] \in {"Bearer", "ApiKey"}
           /\ {parts[2]} = expectedKey

\* What a non-admin is sent for a root: the root without its submittedAt
\* and validAt.
PublicRoot(root) == [root EXCEPT !.submittedAt = {}, !.validAt = {}]

\* DEFAULT query values of GET /merkle/roots.
DefaultLimit == 50
DefaultOffset == 0

\* GET /merkle/roots
ListRootsHandler(fs, expectedKey, authHeader, limit, offset) ==
    LET roots == listMerkleRoots(fs, limit, offset)
    IN  IF optionalAuth(expectedKey, authHeader) THEN roots
        ELSE [i \in DOMAIN roots |-> PublicRoot(roots[i])]

\* GET /merkle/roots/{rootId}: Null stands for the 404 answer.
RootDetailHandler(fs, expectedKey, authHeader, rootId) ==
    LET root == getMerkleRoot(fs, rootId)
    IN  IF ~root.found THEN Null
        ELSE IF optionalAuth(expectedKey, authHeader) THEN root
        ELSE Found(PublicRoot(root.value))

\* C24: to a request without valid admin credentials the list and detail
\* endpoints send the total rewards of active roots only: what they send
\* for a pending, submitted or revoked root holds no totalRewards.
C24_TotalsOnlyForActiveRoots ==
    \A authHeader \in AuthHeaders :
       ~optionalAuth(input.ADMIN_API_KEY, authHeader) =>
         /\ LET roots == ListRootsHandler(files, input.ADMIN_API_KEY, authHeader,
                                          DefaultLimit, DefaultOffset)
            IN  \A i \in DOMAIN roots :
                   roots[i].status # "active"
                     => "totalRewards" \notin DOMAIN roots[i]
         /\ \A rootId \in 1..MaxRoots :
              LET root == RootDetailHandler(files, input.ADMIN_API_KEY,
                                            authHeader, rootId)
              IN  (root.found /\ root.value.status # "active")
                    => "totalRewards" \notin DOMAIN root.value

(***************************************************************************)
(* Pages of the list of roots, checked under SpecAuth.                     *)
(***************************************************************************)
MaxLimit == 3
PageLimits == 0..MaxLimit
PageOffsets == 0..MaxLimit

\* The roots of the files that hold a complete snapshot.
StoredRoots == {files[f].data.merkleRoot : f \in {g \in DOMAIN files :
                                                    files[g].complete}}

Min(a, b) == IF a < b THEN a ELSE b

\* C25: listMerkleRoots(limit, offset) returns at most limit roots; the list
\* without a limit holds every stored root once, whatever its status, the
\* root created last first; a page holds the roots of that list from
\* position offset up to, not including, offset + limit, so that successive
\* pages share no root and together hold every stored root.
C25_PagesOfSortedRoots ==
    LET all == listMerkleRoots(files, Cardinality(StoredRoots), 0)
    IN  /\ Len(all) = Cardinality(StoredRoots)
        /\ {all[i] : i \in DOMAIN all} = StoredRoots
        /\ \A i, j \in DOMAIN all :
             i < j => all[i].createdAt >= all[j].createdAt
        /\ \A limit \in PageLimits, offset \in PageOffsets :
             LET roots == listMerkleRoots(files, limit, offset)
                 next == listMerkleRoots(files, limit, offset + limit)
             IN  /\ Len(roots) <= limit
                 /\ Len(roots) = IF offset >= Len(all) THEN 0
                                 ELSE Min(limit, Len(all) - offset)
                 /\ \A i \in DOMAIN roots : roots[i] = all[offset + i]
                 /\ {roots[i] : i \in DOMAIN roots}
                      \cap {next[i] : i \in DOMAIN next} = {}
                 /\ limit > 0 =>
                      roots \o listMerkleRoots(files, Len(all), offset + limit)
                        = listMerkleRoots(files, Len(all), offset)

\* Two roots of different status are stored; the page of one root at offset
\* 0 holds the newer one and the page at offset 1 the older one.
C25_Witness ==
    /\ Cardinality(StoredRoots) = 2
    /\ \E a, b \in StoredRoots :
         /\ a.status = "pending" /\ b.status = "revoked"
         /\ a.createdAt > b.createdAt
         /\ listMerkleRoots(files, 1, 0) = <<a>>
         /\ listMerkleRoots(files, 1, 1) = <<b>>
         /\ listMerkleRoots(files, 1, 2) = <<>>

(***************************************************************************)
(* Storage failures, checked under SpecSave: the failure met is a file     *)
(* that cannot be parsed because its write has not ended.                  *)
(***************************************************************************)
\* What the caller of a read gets.  Every read of a file sits in a
\* try/catch that goes on to the next file, and the methods throw nothing
\* themselves: the caller always gets a value.
listOutcome(fs, limit, offset) == Returned(listMerkleRoots(fs, limit, offset))
getLatestActiveOutcome(fs) == Returned(getLatestMerkleData(fs))
getByIdOutcome(fs, rootId) == Returned(getMerkleRoot(fs, rootId))

\* The files whose read fails.
FailingFiles(fs) == {f \in DOMAIN fs : ~ReadJson(fs[f]).ok}

\* C26: when the read of a stored file fails, a list, getLatestActive or
\* getById call that reads that file fails too: it returns no value.
C26_StorageFailureIsFatal ==
    FailingFiles(files) # {} =>
      /\ ~listOutcome(files, DefaultLimit, DefaultOffset).ok
      /\ ~getLatestActiveOutcome(files).ok
      /\ \A rootId \in 1..MaxRoots :
           ~loadMerkleData(files, rootId).found
             => ~getByIdOutcome(files, rootId).ok

(***************************************************************************)
(* fetchIncentiveLeaderboard for one incentive, a request and its answer   *)
(* as two steps, with the indexer or with the mock adapter.                *)
(***************************************************************************)
MaxMockUsers == 3
MaxPageSize == 2

\* Math.ceil(a / b)
CeilDiv(a, b) == (a + b - 1) \div b

\* What the mock adapter puts on a page: the users and amounts are random.
MockEntries == [user : UserPool, rewards : {Finite(1)}]

\* IndexerMock.mockFetch: the answers it can give for a page.
mockFetch(userCount, pageSize, p) ==
    LET totalPages == CeilDiv(userCount, pageSize)
        left == userCount - p * pageSize
        currentPageUsers == IF pageSize < left THEN pageSize ELSE left
    IN  IF p >= totalPages \/ currentPageUsers <= 0
        THEN {[kind |-> "ok", leaderboard |-> <<>>, nPages |-> totalPages,
               isOver |-> TRUE]}
        ELSE {[kind |-> "ok", leaderboard |-> l, nPages |-> totalPages,
               isOver |-> (p >= totalPages - 1)] :
                l \in [1..currentPageUsers -> MockEntries]}

\* The source of the leaderboard: the indexer, or the mock adapter with its
\* user count and the page size of the run.
PageSources ==
    [adapter : {"live"}, userCount : {0}, pageSize : {0}]
    \cup [adapter : {"mock"}, userCount : 1..MaxMockUsers,
          pageSize : 1..MaxPageSize]

\* A loop that goes on until a page comes back empty.
HasMorePages_UntilEmpty(adapter, response, p) == response.leaderboard # <<>>

\* hasMorePages after an answer, in the mock path and in the indexer path.
HasMorePages(adapter, response, p) ==
    IF adapter = "mock" THEN ~response.isOver /\ p + 1 < response.nPages
    ELSE p + 1 < response.nPages

\* The call has been made: the loop is about to request page 0.  output is
\* the list of the requests made, each with whether the source answers it.
PagesInit ==
    /\ pc = "fetch" /\ chainId = 8453 /\ includeDeprecated = FALSE
    /\ vaults = <<>> /\ runResult = "running" /\ vi = 1 /\ ii = 1
    /\ incentive = NoIncentive
    /\ globalRewards = <<>> /\ aggregatedRewards = <<>>
    /\ incentiveRewards = <<>> /\ rewards = <<>>
    /\ page = 0 /\ hasMorePages = TRUE /\ allEntries = <<>>
    /\ fetchLog = <<>> /\ credited = NoCredit /\ thrown = {}
    /\ StoreInit
    /\ input \in PageSources
    /\ output = <<>>

\* The loop sends the request for the page.  fetch is called without a
\* timeout or an abort signal: an indexer that never answers leaves the call
\* waiting.  The mock adapter answers after its delay.
RequestPage ==
    /\ pc = "fetch"
    /\ \E answers \in IF input.adapter = "live" THEN BOOLEAN ELSE {TRUE} :
         output' = Append(output, [page |-> page, answers |-> answers])
    /\ pc' = "await"
    /\ UNCHANGED <<chainId, includeDeprecated, vaults, runResult, vi, ii,
                   incentive, globalRewards, aggregatedRewards,
                   incentiveRewards, rewards, page, hasMorePages, allEntries,
                   fetchLog, credited, thrown, storeVars, input>>

\* The indexer answers: the rest of the turn of the loop.
LiveAnswer ==
    /\ pc = "await" /\ input.adapter = "live"
    /\ output[Len(output)].answers
    /\ \E response \in PageResponses :
         /\ fetchLog' = Append(fetchLog, [page |-> page, response |-> response])
         /\ IF response.kind = "ok"
            THEN /\ allEntries' = allEntries \o response.leaderboard
                 /\ hasMorePages' = HasMorePages("live", response, page)
                 /\ page' = page + 1
                 /\ pc' = IF HasMorePages("live", response, page)
                          THEN "fetch" ELSE "returned"
            ELSE /\ allEntries' = EntriesAfterFailure(allEntries)
                 /\ pc' = "returned"
                 /\ UNCHANGED <<page, hasMorePages>>
    /\ UNCHANGED <<chainId, includeDeprecated, vaults, runResult, vi, ii,
                   incentive, globalRewards, aggregatedRewards,
                   incentiveRewards, rewards, credited, thrown, storeVars, fnVars>>

\* The mock adapter answers: the rest of the turn of the mock loop.
MockAnswer ==
    /\ pc = "await" /\ input.adapter = "mock"
    /\ \E response \in mockFetch(input.userCount, input.pageSize, page) :
         /\ fetchLog' = Append(fetchLog, [page |-> page, response |-> response])
         /\ allEntries' = allEntries \o response.leaderboard
         /\ hasMorePages' = HasMorePages("mock", response, page)
         /\ page' = page + 1
         /\ pc' = IF HasMorePages("mock", response, page)
                  THEN "fetch" ELSE "returned"
    /\ UNCHANGED <<chainId, includeDeprecated, vaults, runResult, vi, ii,
                   incentive, globalRewards, aggregatedRewards,
                   incentiveRewards, rewards, credited, thrown, storeVars, fnVars>>

PagesNext == RequestPage \/ LiveAnswer \/ MockAnswer

\* The continuation of an await runs once its promise is settled.
SpecPages == PagesInit /\ [][PagesNext]_vars /\ WF_vars(PagesNext)

\* C27: the call for an incentive returns, also when a page request is
\* never answered.
C27_FetchAlwaysReturns == <>(pc = "returned")

AsksForMore(i) ==
    LET response == fetchLog[i].response
    IN  /\ response.kind = "ok"
        /\ fetchLog[i].page + 1 < response.nPages
        /\ (input.adapter = "mock" => ~response.isOver)

\* C28: the k-th request of a call asks for page k - 1; a request is sent
\* only when every earlier one has been answered; every answer but the last
\* left more pages to ask for (page + 1 < nPages and, with the mock adapter,
\* isOver false) and the call returns at the first answer that does not; so
\* no more requests are made than the page count the source last reported,
\* and the call returns when its requests are answered.
C28_PagesInSequence ==
    /\ [](\A k \in DOMAIN output : output[k].page = k - 1)
    /\ [](/\ Len(output) = Len(fetchLog) + (IF pc = "await" THEN 1 ELSE 0)
          /\ \A i \in DOMAIN fetchLog : fetchLog[i].page = output[i].page)
    /\ [](\A i \in DOMAIN fetchLog :
            (i < Len(fetchLog) \/ pc \in {"fetch", "await"}) <=> AsksForMore(i))
    /\ [](Len(output) >= 2
            => Len(output) <= fetchLog[Len(output) - 1].response.nPages)
    /\ [](input.adapter = "mock"
            => Len(output) <= CeilDiv(input.userCount, input.pageSize))
    /\ [](Len(output) <= (IF input.adapter = "mock" THEN MaxMockUsers
                          ELSE MaxPages))
    /\ <>(pc = "returned" \/ \E k \in DOMAIN output : ~output[k].answers)

\* A call has asked for two pages, one after the other, and returned.
C28_Witness ==
    /\ pc = "returned"
    /\ Len(output) = 2 /\ Len(fetchLog) = 2
    /\ fetchLog[2].response.kind = "ok"

(***************************************************************************)
(* Two status requests at a time.                                          *)
(***************************************************************************)
Admins == {"u1", "u2"}

\* The reward list of the one generator run.
RaceInputs == {<<[account |-> Addr("A"), token |-> MGVAddress,
                  amount |-> <<"1">>]>>}

RaceInit ==
    /\ pc = "off" /\ chainId = 8453 /\ includeDeprecated = FALSE
    /\ AggIdle
    /\ files = <<>> /\ clock = 1 /\ nextId = 1
    /\ save = [p \in Savers |-> IdleSave]
    /\ upd = [q \in Admins |-> IdleUpdate]
    /\ built = <<>>
    /\ returned = {}
    /\ FnIdle

\* One run of the generator and two clients of the status endpoint.
RaceNext ==
    \/ (nextId = 1 /\ SaveStartFrom(Creator, RaceInputs))
    \/ SaveOpen(Creator) \/ SaveClose(Creator)
    \/ Tick
    \/ \E q \in Admins :
         \/ HandlerCheckFrom(q, {"submitted", "active"}, TimestampInputs)
         \/ UpdLoad(q) \/ UpdScan(q) \/ UpdOpen(q) \/ UpdClose(q)
         \/ NextCall(q)

SpecRace == RaceInit /\ [][RaceNext]_vars

\* C29: status calls on one root act as if made one after the other; in
\* particular, once a call that carried a submittedAt or a validAt has
\* ended, the stored root holds that timestamp, whatever other call was
\* in progress on the same root.
C29_TimestampNotLost ==
    \A q \in Admins :
       upd[q].pc = "done" =>
         \A f \in DOMAIN files :
            (files[f].complete
             /\ files[f].data.merkleRoot.id = upd[q].rootId)
              => /\ upd[q].submittedAt \subseteq
                      files[f].data.merkleRoot.submittedAt
                 /\ upd[q].validAt \subseteq files[f].data.merkleRoot.validAt

(***************************************************************************)
(* Status and the serving of proofs, checked under SpecProof.              *)
(***************************************************************************)
\* The ClaimProof objects of the entries of a stored snapshot.
LeafSet(f) ==
    {ClaimProof(files[f].data.entries[i]) : i \in DOMAIN files[f].data.entries}

Elements(seq) == {seq[i] : i \in DOMAIN seq}

\* C30: without a rootId getProof and getAccountProofs return only leaves
\* of a stored active root, and nothing when no root is active; with a
\* rootId they return the leaves of that root, whatever its status.
C30_StatusGatesDefaultPathOnly ==
    /\ \A account \in ProofAccounts :
         /\ \A token \in ProofTokens :
              LET r == getProof(files, account, token, {})
              IN  r.value.found =>
                    \E f \in ActiveFiles : r.value.value \in LeafSet(f)
         /\ LET r == getAccountProofs(files, account, {})
            IN  r.value # <<>> =>
                  \E f \in ActiveFiles : Elements(r.value) \subseteq LeafSet(f)
    /\ \A f \in DOMAIN files :
         files[f].complete =>
           \A i \in DOMAIN files[f].data.entries :
              LET entry == files[f].data.entries[i]
                  rootId == {files[f].data.merkleRoot.id}
                  one == getProof(files, entry.account, entry.tokenAddress,
                                  rootId)
                  all == getAccountProofs(files, entry.account, rootId)
              IN  /\ one.value.found /\ one.value.value \in LeafSet(f)
                  /\ ClaimProof(entry) \in Elements(all.value)
                  /\ Elements(all.value) \subseteq LeafSet(f)

\* A status call has just moved a root from active to revoked and no root
\* is active: its leaf is no longer returned without a rootId and still
\* returned with its rootId, as is the leaf of a pending root.
C30_Witness ==
    /\ upd[Admin].pc = "done"
    /\ upd[Admin].from = "active" /\ upd[Admin].status = "revoked"
    /\ ActiveFiles = {}
    /\ ~getProof(files, Addr("A"), MGVAddress, {}).value.found
    /\ getAccountProofs(files, Addr("A"), {}).value = <<>>
    /\ \E f, g \in DOMAIN files :
         /\ files[f].complete /\ files[g].complete
         /\ files[f].data.merkleRoot.id = upd[Admin].rootId
         /\ files[f].data.merkleRoot.status = "revoked"
         /\ files[g].data.merkleRoot.status = "pending"
         /\ getProof(files, Addr("A"), MGVAddress,
                     {files[f].data.merkleRoot.id}).value.found
         /\ getProof(files, Addr("A"), MGVAddress,
                     {files[g].data.merkleRoot.id}).value.found

====
